---- MODULE Spec2Model ----
(***************************************************************************)
(* Pythva: the Python-to-Java-style transliterator.                        *)
(*   src/core.py    JavaStyleConverter   (the basic variant)               *)
(*   src/mapper.py  SyntaxMapper, EnhancedConverter (mapping-augmented)    *)
(*                                                                         *)
(* Texts are TLA+ strings.  An entry of a converter's `lines` list is kept *)
(* as the record [ind, txt] standing for the Python string                 *)
(* "    " * ind + txt (RenderLines gives the string); the texts the         *)
(* SyntaxMapper scans for substrings are sequences of characters.          *)
(***************************************************************************)
EXTENDS Integers, Sequences, FiniteSets, TLC

VARIABLES
    call,            \* the last top-level call: [fn, code]
    ret,             \* its outcome: [raised, text, lines]
    conv,            \* the JavaStyleConverter object the last call made and used
    enh,             \* the EnhancedConverter object the last call made and used
    mapper,          \* the class SyntaxMapper: its three tables
    mcall,           \* the last call of a SyntaxMapper method: [fn, arg]
    mret,            \* what it returned: [value]
    mprev,           \* [same, value]: whether the call before it was the same
                     \* call, and what that one returned
    cache,           \* the ConversionCache object: [max_size, cache]; cache is
                     \* the dict, its entries in insertion order
    clock,           \* the last reading of time.time() by get
    ccall,           \* the last call of a ConversionCache method: [fn, code, text]
    cret,            \* what it returned: [value]
    cprev,           \* the dict as it was when that call began, if it was a
                     \* get or a put
    puts,            \* history: the put calls whose entry has been neither
                     \* evicted nor cleared, oldest first, the last one per code
    manager,         \* the PluginManager object: [plugins, conversion_plugins];
                     \* a plugin object is named by its place in conversion_plugins
    reporter,        \* the global ErrorReporter: [errors, warnings]
    pcall,           \* the last call of a PluginManager method: [fn, arg]
    pret,            \* its outcome: [raised, value, reported], reported being
                     \* the errors it added to the reporter
    opt,             \* an OptimizedConverter object: [cache, monitor], cache a
                     \* ConversionCache or None, monitor the PerformanceMetrics
    ocall,           \* the last call made on it: [fn, code, use_enhanced, optimize]
    oret,            \* its outcome: [raised, text, converted], converted telling
                     \* whether the underlying converter was invoked
    oprev,           \* the object as it was when that call began
    ocalls           \* history: the number of convert calls made on the object

vars == <<call, ret, conv, enh, mapper, mcall, mret, mprev,
          cache, clock, ccall, cret, cprev, puts, manager, reporter, pcall, pret,
          opt, ocall, oret, oprev, ocalls>>

(***************************************************************************)
(* Syntax trees as ast.parse builds them (only the fields the code reads). *)
(***************************************************************************)
NoneNode == [kind |-> "None"]
Module(body) == [kind |-> "Module", body |-> body]
ClassDef(name, bases, body) ==
    [kind |-> "ClassDef", name |-> name, bases |-> bases, body |-> body]
Arg(name, annotation) == [kind |-> "arg", arg |-> name, annotation |-> annotation]
FunctionDef(name, args, returns, body) ==
    [kind |-> "FunctionDef", name |-> name, args |-> args,
     returns |-> returns, body |-> body]
Assign(targets, value) == [kind |-> "Assign", targets |-> targets, value |-> value]
AugAssign(target, op, value) ==
    [kind |-> "AugAssign", target |-> target, op |-> op, value |-> value]
Return(value) == [kind |-> "Return", value |-> value]
If(test, body, orelse) ==
    [kind |-> "If", test |-> test, body |-> body, orelse |-> orelse]
For(target, iter, body) ==
    [kind |-> "For", target |-> target, iter |-> iter, body |-> body]
While(test, body) == [kind |-> "While", test |-> test, body |-> body]
Expr(value) == [kind |-> "Expr", value |-> value]
Pass == [kind |-> "Pass"]
With(body) == [kind |-> "With", body |-> body]
Import(names) == [kind |-> "Import", names |-> names]
ImportFrom(module, names) ==
    [kind |-> "ImportFrom", module |-> module, names |-> names]

Name(id) == [kind |-> "Name", id |-> id]
\* ty is type(value).__name__, s is str(value) (the value itself for a str)
Constant(ty, s) == [kind |-> "Constant", ty |-> ty, s |-> s]
ListNode(elts) == [kind |-> "List", elts |-> elts]
DictNode(keys, values) == [kind |-> "Dict", keys |-> keys, values |-> values]
TupleNode(elts) == [kind |-> "Tuple", elts |-> elts]
BinOp(left, op, right) ==
    [kind |-> "BinOp", left |-> left, op |-> op, right |-> right]
Compare(left, ops, comparators) ==
    [kind |-> "Compare", left |-> left, ops |-> ops, comparators |-> comparators]
Call(func, args) == [kind |-> "Call", func |-> func, args |-> args]
Attribute(value, attr) == [kind |-> "Attribute", value |-> value, attr |-> attr]
Subscript(value, slice) == [kind |-> "Subscript", value |-> value, slice |-> slice]
JoinedStr(values) == [kind |-> "JoinedStr", values |-> values]
FormattedValue(value) == [kind |-> "FormattedValue", value |-> value]

\* str(node) of an object without __str__: "<ast.K object at 0x...>"; the
\* address is left out.
ObjectRepr(kind) ==
    IF kind = "None" THEN "None" ELSE "<ast." \o kind \o " object>"

(***************************************************************************)
(* str.join, list and string helpers.                                      *)
(***************************************************************************)
RECURSIVE JoinWith(_, _)
JoinWith(parts, sep) ==
    IF parts = <<>> THEN ""
    ELSE IF Len(parts) = 1 THEN parts[1]
    ELSE parts[1] \o sep \o JoinWith(Tail(parts), sep)

\* "    " * ind + txt for each line [ind, txt]
RenderLines(ls) ==
    LET RECURSIVE Pad(_)
        Pad(n) == IF n <= 0 THEN "" ELSE "    " \o Pad(n - 1)
    IN  [i \in 1..Len(ls) |-> Pad(ls[i].ind) \o ls[i].txt]


\* zip(a, b)
Zip(a, b) ==
    [i \in 1..(IF Len(a) < Len(b) THEN Len(a) ELSE Len(b)) |-> <<a[i], b[i]>>]


(***************************************************************************)
(* ast.iter_child_nodes: the child nodes of a node, in field order.        *)
(***************************************************************************)
Children(node) ==
    LET Opt(n) == IF n.kind = "None" THEN <<>> ELSE <<n>>
        NotNone(ns) == SelectSeq(ns, LAMBDA n : n.kind # "None")
    IN
    CASE node.kind = "Module" -> node.body
      [] node.kind = "ClassDef" -> node.bases \o node.body
      [] node.kind = "FunctionDef" -> node.args \o node.body \o Opt(node.returns)
      [] node.kind = "arg" -> Opt(node.annotation)
      [] node.kind = "Assign" -> node.targets \o <<node.value>>
      [] node.kind = "AugAssign" -> <<node.target, node.value>>
      [] node.kind = "Return" -> Opt(node.value)
      [] node.kind = "If" -> <<node.test>> \o node.body \o node.orelse
      [] node.kind = "For" -> <<node.target, node.iter>> \o node.body
      [] node.kind = "While" -> <<node.test>> \o node.body
      [] node.kind = "Expr" -> <<node.value>>
      [] node.kind = "With" -> node.body
      [] node.kind \in {"List", "Tuple"} -> node.elts
      [] node.kind = "Dict" -> NotNone(node.keys) \o node.values
      [] node.kind = "BinOp" -> <<node.left, node.right>>
      [] node.kind = "Compare" -> <<node.left>> \o node.comparators
      [] node.kind = "Call" -> <<node.func>> \o node.args
      [] node.kind = "Attribute" -> <<node.value>>
      [] node.kind = "Subscript" -> <<node.value, node.slice>>
      [] node.kind = "JoinedStr" -> node.values
      [] node.kind = "FormattedValue" -> <<node.value>>
      [] OTHER -> <<>>

\* isinstance(value, cls) for the value of a Constant of type ty
IsInstance(ty, cls) == cls = ty \/ (ty = "bool" /\ cls = "int")

(***************************************************************************)
(* The input texts.  ast.parse is the standard library's; it is modelled   *)
(* by its table over these texts: each input is a source text together     *)
(* with the tree ast.parse builds for it, or the SyntaxError it raises.    *)
(* Source texts are assembled from source lines [ind, txt].                *)
(***************************************************************************)
MaxTargets == 3      \* longest chain of assignment targets a = b = ... = e

SL(ind, txt) == [ind |-> ind, txt |-> txt]

Indented(ls) == [i \in 1..Len(ls) |-> SL(ls[i].ind + 1, ls[i].txt)]

SrcText(ls) == JoinWith(RenderLines(ls), "\n") \o "\n"

RECURSIVE SrcOf(_)
SrcOf(frags) ==
    IF frags = <<>> THEN <<>> ELSE frags[1].src \o SrcOf(Tail(frags))

AstOf(frags) == [i \in 1..Len(frags) |-> frags[i].ast]

Names(ids) == [i \in 1..Len(ids) |-> Name(ids[i])]

\* expressions: [src, ast]
Ex(src, ast) == [src |-> src, ast |-> ast]
E_name(id) == Ex(id, Name(id))
\* the expressions of the inputs, by kind
Exprs ==
    [ int |-> Ex("10", Constant("int", "10")),
      float |-> Ex("1.5", Constant("float", "1.5")),
      str |-> Ex("\"hello\"", Constant("str", "hello")),
      true |-> Ex("True", Constant("bool", "True")),
      false |-> Ex("False", Constant("bool", "False")),
      none |-> Ex("None", Constant("NoneType", "None")),
      compute |-> Ex("compute()", Call(Name("compute"), <<>>)),
      list |-> Ex("[1, 2]", ListNode(<<Constant("int", "1"), Constant("int", "2")>>)),
      dict |-> Ex("{\"a\": 1}", DictNode(<<Constant("str", "a")>>, <<Constant("int", "1")>>)),
      add |-> Ex("a + b", BinOp(Name("a"), "Add", Name("b"))),
      gt |-> Ex("x > 0", Compare(Name("x"), <<"Gt">>, <<Constant("int", "0")>>)),
      range |-> Ex("range(10)", Call(Name("range"), <<Constant("int", "10")>>)),
      tuple |-> Ex("(1, 2)", TupleNode(<<Constant("int", "1"), Constant("int", "2")>>)) ]


\* statements: [src, ast], src a sequence of source lines
Frag(src, ast) == [src |-> src, ast |-> ast]
S_Assign(ids, e) ==
    Frag(<<SL(0, JoinWith(ids, " = ") \o " = " \o e.src)>>, Assign(Names(ids), e.ast))
S_AttrAssign(obj, attr, e) ==
    Frag(<<SL(0, obj \o "." \o attr \o " = " \o e.src)>>,
      Assign(<<Attribute(Name(obj), attr)>>, e.ast))
S_AugAssign(id, e) ==
    Frag(<<SL(0, id \o " += " \o e.src)>>, AugAssign(Name(id), "Add", e.ast))
S_Expr(e) == Frag(<<SL(0, e.src)>>, Expr(e.ast))
S_Return(e) == Frag(<<SL(0, "return " \o e.src)>>, Return(e.ast))
S_Pass == Frag(<<SL(0, "pass")>>, Pass)
S_For(t, it, body) ==
    Frag(<<SL(0, "for " \o t \o " in " \o it.src \o ":")>> \o Indented(SrcOf(body)),
      For(Name(t), it.ast, AstOf(body)))
S_While(test, body) ==
    Frag(<<SL(0, "while " \o test.src \o ":")>> \o Indented(SrcOf(body)),
      While(test.ast, AstOf(body)))
S_If(test, body, orelse) ==
    Frag(<<SL(0, "if " \o test.src \o ":")>> \o Indented(SrcOf(body))
        \o (IF orelse = <<>> THEN <<>>
            ELSE <<SL(0, "else:")>> \o Indented(SrcOf(orelse))),
      If(test.ast, AstOf(body), AstOf(orelse)))
S_Def(name, params, body) ==
    Frag(<<SL(0, "def " \o name \o "(" \o JoinWith(params, ", ") \o "):")>>
        \o Indented(SrcOf(body)),
      FunctionDef(name, [i \in 1..Len(params) |-> Arg(params[i], NoneNode)], NoneNode,
                  AstOf(body)))
S_Class(name, bases, body) ==
    Frag(<<SL(0, "class " \o name
              \o (IF bases = <<>> THEN "" ELSE "(" \o JoinWith(bases, ", ") \o ")")
              \o ":")>> \o Indented(SrcOf(body)),
      ClassDef(name, Names(bases), AstOf(body)))
S_ImportFrom(module, names) ==
    Frag(<<SL(0, "from " \o module \o " import " \o JoinWith(names, ", "))>>,
      ImportFrom(module, names))
S_Import(names) == Frag(<<SL(0, "import " \o JoinWith(names, ", "))>>, Import(names))

Parsed(tree) == [ok |-> TRUE, tree |-> tree]
Failed(exc, msg) == [ok |-> FALSE, exc |-> exc, msg |-> msg]

Program(frags) == [code |-> SrcText(SrcOf(frags)), outcome |-> Parsed(Module(AstOf(frags)))]

\* a statement alone at top level, and alone in the body of a function
Wrapped(frag) == {Program(<<frag>>), Program(<<S_Def("f", <<>>, <<frag>>)>>)}

TargetNames == {"a", "b", "c"}

\* chained assignments: the target lists are 2..MaxTargets plain names
ChainedPrograms ==
    UNION {Wrapped(S_Assign(ts, e)) :
             ts \in UNION {[1..n -> TargetNames] : n \in 2..MaxTargets},
             e \in {Exprs.compute, Exprs.int, Exprs.str}}

AssignPrograms ==
    UNION {Wrapped(S_Assign(<<v>>, e)) :
             v \in {"x", "y", "z"},
             e \in {Exprs.int, Exprs.float, Exprs.str, Exprs.true, Exprs.false, Exprs.none,
                    Exprs.compute, Exprs.list, Exprs.dict, Exprs.add, Exprs.tuple}}

S_g(arg) == S_Expr(Ex("g(" \o arg \o ")", Call(Name("g"), <<Name(arg)>>)))

ForPrograms ==
    LET ForBodies ==
          { <<S_g("i")>>,
            <<S_AugAssign("total", E_name("item"))>>,
            <<S_Pass>>,
            <<S_Assign(<<"x">>, Exprs.int), S_g("x")>>,
            <<S_For("j", E_name("ys"), <<S_g("j")>>)>>,
            <<S_If(Exprs.gt, <<S_g("i")>>, <<S_g("x")>>), S_Return(E_name("i"))>>,
            <<S_For("j", E_name("ys"), <<S_If(Exprs.gt, <<S_g("j")>>, <<>>)>>), S_g("i")>>,
            <<S_While(Exprs.gt, <<S_g("x")>>)>>,
            <<S_Def("h", <<"a">>, <<S_Return(Exprs.add)>>)>> }
    IN  UNION {Wrapped(S_For(t, it, b)) :
                 t \in {"item", "i"}, it \in {E_name("items"), Exprs.range},
                 b \in ForBodies}

\* one class whose only method is __init__(self, p)
CtorPrograms ==
    {Program(<<S_Class(C, bases, <<S_Def("__init__", <<"self", p>>, body)>>)>>) :
        C \in {"HelloWorld", "Point", "A"}, bases \in {<<>>, <<"Base">>},
        p \in {"name", "x", "value"},
        body \in {<<S_Pass>>, <<S_AttrAssign("self", "name", E_name("name"))>>}}

\* src/test_converter.py, test_basic_class_conversion
HelloWorldClass ==
    LET S_print_hello ==
            S_Expr(Ex("print(f\"Hello, {self.name}!\")",
                     Call(Name("print"),
                          <<JoinedStr(<<Constant("str", "Hello, "),
                                        FormattedValue(Attribute(Name("self"), "name")),
                                        Constant("str", "!")>>)>>)))
    IN  S_Class("HelloWorld", <<>>,
                <<S_Def("__init__", <<"self", "name">>,
                        <<S_AttrAssign("self", "name", E_name("name"))>>),
                  S_Def("greet", <<"self">>, <<S_print_hello>>)>>)

HelloWorldProgram ==
    [code |-> "\nclass HelloWorld:\n    def __init__(self, name):\n"
              \o "        self.name = name\n\n    def greet(self):\n"
              \o "        print(f\"Hello, {self.name}!\")\n",
     outcome |-> Parsed(Module(<<HelloWorldClass.ast>>))]

\* the scenario of spec section 8: the same class without the blank line
HelloWorldScenario == Program(<<HelloWorldClass>>)

TestProgram(frags) ==
    [code |-> "\n" \o SrcText(SrcOf(frags)), outcome |-> Parsed(Module(AstOf(frags)))]

\* test_method_with_return, test_conditional_statement, test_loop_conversion,
\* test_variable_assignment
TestPrograms ==
    { TestProgram(<<S_Def("calculate", <<"a", "b">>, <<S_Return(Exprs.add)>>)>>),
      TestProgram(<<S_Def("check_value", <<"x">>,
                          <<S_If(Exprs.gt, <<S_Return(Ex("\"positive\"", Constant("str", "positive")))>>,
                                 <<S_Return(Ex("\"negative\"", Constant("str", "negative")))>>)>>)>>),
      TestProgram(<<S_Def("sum_list", <<"items">>,
                          <<S_Assign(<<"total">>, Ex("0", Constant("int", "0"))),
                            S_For("item", E_name("items"),
                                  <<S_AugAssign("total", E_name("item"))>>),
                            S_Return(E_name("total"))>>)>>),
      TestProgram(<<S_Def("test_assignment", <<>>,
                          <<S_Assign(<<"x">>, Exprs.int), S_Assign(<<"y">>, Exprs.str),
                            S_Assign(<<"z">>, Exprs.true),
                            S_Return(Ex("x, y, z", TupleNode(Names(<<"x", "y", "z">>))))>>)>>) }

\* def process_list(data: List[int]): return sum(data)
S_process_list ==
    Frag(<<SL(0, "def process_list(data: List[int]):"), SL(1, "return sum(data)")>>,
      FunctionDef("process_list",
                  <<Arg("data", Subscript(Name("List"), Name("int")))>>, NoneNode,
                  <<Return(Call(Name("sum"), <<Name("data")>>))>>))

\* def test_literals(): my_list = [1, 2]; my_dict = {"a": 1}; return ...
S_test_literals ==
    S_Def("test_literals", <<>>,
          <<S_Assign(<<"my_list">>, Exprs.list), S_Assign(<<"my_dict">>, Exprs.dict),
            S_Return(Ex("my_list, my_dict", TupleNode(Names(<<"my_list", "my_dict">>))))>>)

ImportPrograms ==
    LET ImportStmts ==
          { S_ImportFrom("typing", <<"List">>), S_ImportFrom("typing", <<"Dict">>),
            S_ImportFrom("typing", <<"List", "Dict">>), S_ImportFrom("typing", <<"Optional">>),
            S_ImportFrom("os", <<"path">>), S_Import(<<"os">>), S_Import(<<"pythva.core">>),
            S_Import(<<"os", "pythva.core">>),
            \* from . import x: the module is None
            Frag(<<SL(0, "from . import x")>>, ImportFrom("", <<"x">>)) }
        ImportRests ==
          { <<>>, <<S_process_list>>, <<S_test_literals>>, <<S_Assign(<<"x">>, Exprs.list)>>,
            <<S_Assign(<<"y">>, Exprs.dict)>>,
            <<S_Assign(<<"x">>, Ex("[[1, 2]]", ListNode(<<Exprs.list.ast>>)))>> }
    IN  {Program(<<i>> \o r) : i \in ImportStmts, r \in ImportRests}

\* test_enhanced_converter_imports, test_list_and_dict_literals
EnhancedTestPrograms ==
    { [code |-> "\nfrom typing import List\n\ndef process_list(data: List[int]):\n"
                \o "    return sum(data)\n",
       outcome |-> Parsed(Module(<<ImportFrom("typing", <<"List">>), S_process_list.ast>>))],
      TestProgram(<<S_test_literals>>) }

\* if statements whose test is one comparison, with and without else, with an
\* elif (spelled as else: if, and as elif), alone and nested
IfPrograms ==
    LET tests == {Exprs.gt,
                  Ex("a == b", Compare(Name("a"), <<"Eq">>, <<Name("b")>>)),
                  Ex("n <= 10", Compare(Name("n"), <<"LtE">>, <<Constant("int", "10")>>))}
        inner == S_If(Exprs.gt, <<S_g("y")>>, <<S_g("z")>>)
        bodies == {<<S_g("x")>>, <<S_Return(E_name("x"))>>, <<inner, S_g("x")>>}
        orelses == {<<>>, <<S_g("y")>>, <<inner>>, <<S_g("y"), S_Return(Exprs.int)>>}
    IN  UNION {Wrapped(S_If(t, b, e)) : t \in tests, b \in bodies, e \in orelses}
          \cup {[code |-> "if a == b:\n    g(x)\nelif x > 0:\n    g(y)\nelse:\n    g(z)\n",
                 outcome |-> Parsed(Module(<<If(Compare(Name("a"), <<"Eq">>, <<Name("b")>>),
                                                <<S_g("x").ast>>, <<inner.ast>>)>>))]}

\* def name(params) -> T: with a plain name T as return annotation
AnnotatedPrograms ==
    {Program(<<Frag(<<SL(0, "def " \o name \o "(" \o JoinWith(params, ", ") \o ") -> "
                             \o T \o ":"),
                      SL(1, "return x")>>,
                    FunctionDef(name, [i \in 1..Len(params) |-> Arg(params[i], NoneNode)],
                                Name(T), <<Return(Name("x"))>>))>>) :
        name \in {"f", "get"}, params \in {<<>>, <<"x">>},
        T \in {"int", "str", "float", "bool", "list", "dict", "tuple", "set", "object",
                "Foo", "None_"}}

\* def name(params): pass, at top level and as a method: the parameter self
\* first, elsewhere, and absent
ParamPrograms ==
    UNION {{Program(<<S_Def(name, params, <<S_Pass>>)>>),
            Program(<<S_Class("A", <<>>, <<S_Def(name, params, <<S_Pass>>)>>)>>)} :
              name \in {"m", "__init__"},
              params \in {<<"self">>, <<"self", "q">>, <<"this", "q">>, <<"q", "self", "a">>,
                          <<"a", "b">>, <<"cls", "name">>, <<"q">>}}

\* classes within classes and functions, __init__ after a nested class, and
\* bases that are no plain names
ClassPrograms ==
    LET ctor(p) == S_Def("__init__", <<"self">> \o p, <<S_Pass>>)
        WithBases(name, src, bases, body) ==
            Frag(<<SL(0, "class " \o name \o "(" \o src \o "):")>> \o Indented(SrcOf(body)),
                 ClassDef(name, bases, AstOf(body)))
        mBase == Attribute(Name("m"), "Base")
    IN  {Program(<<S_Class(O, bases, <<S_Class(I, <<>>, inner), ctor(<<"x">>)>>)>>) :
            O \in {"Outer", "A"}, I \in {"Inner"}, bases \in {<<>>, <<"Base", "Other">>},
            inner \in {<<ctor(<<>>)>>, <<S_Pass>>,
                       <<S_Class("Deep", <<>>, <<ctor(<<>>)>>), ctor(<<"y">>)>>}}
        \cup {Program(<<S_Def("f", <<>>, <<S_Class("C", <<>>, <<ctor(<<>>)>>), ctor(<<>>)>>),
                        ctor(<<"x">>)>>),
              Program(<<S_If(Exprs.gt, <<S_Class("C", <<>>, <<ctor(<<>>)>>)>>, <<ctor(<<>>)>>)>>)}
        \cup {Program(<<WithBases("A", src_bases[1], src_bases[2], <<ctor(<<>>)>>)>>) :
                src_bases \in {<<"m.Base", <<mBase>>>>,
                               <<"m.Base, B", <<mBase, Name("B")>>>>,
                               <<"B, m.Base, C", <<Name("B"), mBase, Name("C")>>>>,
                               <<"f()", <<Call(Name("f"), <<>>)>>>>}}

OtherPrograms ==
    { \* a chain with a target that is no plain name
      [code |-> "a = self.b = c = compute()\n",
       outcome |-> Parsed(Module(<<Assign(<<Name("a"), Attribute(Name("self"), "b"),
                                           Name("c")>>, Exprs.compute.ast)>>))],
      \* for k, v in items: the target is a Tuple
      [code |-> "for k, v in items:\n    g(k)\n",
       outcome |-> Parsed(Module(<<For(TupleNode(<<Name("k"), Name("v")>>), Name("items"),
                                       <<S_g("k").ast>>)>>))],
      \* the empty text
      [code |-> "", outcome |-> Parsed(Module(<<>>))] }

BadInputs ==
    { [code |-> "def f(:\n", outcome |-> Failed("SyntaxError", "invalid syntax (<unknown>, line 1)")],
      [code |-> "class :\n    pass\n",
       outcome |-> Failed("SyntaxError", "invalid syntax (<unknown>, line 1)")],
      [code |-> "x = = 1\n", outcome |-> Failed("SyntaxError", "invalid syntax (<unknown>, line 1)")],
      [code |-> "  x = 1\n",
       outcome |-> Failed("IndentationError", "unexpected indent (<unknown>, line 1)")],
      [code |-> "x = (1,\n",
       outcome |-> Failed("SyntaxError", "'(' was never closed (<unknown>, line 1)")],
      [code |-> "from typing import\n",
       outcome |-> Failed("SyntaxError", "invalid syntax (<unknown>, line 1)")] }

Inputs ==
    ChainedPrograms \cup AssignPrograms \cup ForPrograms \cup CtorPrograms
      \cup TestPrograms \cup ImportPrograms \cup EnhancedTestPrograms \cup BadInputs
      \cup IfPrograms \cup AnnotatedPrograms \cup ParamPrograms \cup OtherPrograms
      \cup {HelloWorldProgram, HelloWorldScenario} \cup ClassPrograms

Codes == {i.code : i \in Inputs}

\* the table of ast.parse over the input texts
ParseTable == [code \in Codes |-> (CHOOSE i \in Inputs : i.code = code).outcome]

\* ast.parse(code)
ast_parse(code) == ParseTable[code]

(***************************************************************************)
(* src/core.py: JavaStyleConverter, the basic variant.                     *)
(* The object is the record [indent_level, lines, class_stack, in_method]; *)
(* a visit method takes the object and returns it as the method leaves it. *)
(* A Python call evaluates its argument once, before the body runs: where  *)
(* the body reads the object several times it is bound once, as the one    *)
(* element v of {argument}.                                                *)
(***************************************************************************)
\* the marker convert() puts before the parse error: "// " followed by the
\* four CJK characters U+8BED U+6CD5 U+9519 U+8BEF ("syntax error") and ": "
SyntaxErrorMarker == "// <U+8BED><U+6CD5><U+9519><U+8BEF>: "

JavaStyleConverter_init ==
    [indent_level |-> 0, lines |-> <<>>, class_stack |-> <<>>, in_method |-> FALSE]

add_line(self, line) ==
    LET append(s) ==
          \* line.strip(), for the lines the converters build
          IF line \notin {"", " ", "    ", "\n", "\t"}
          THEN [s EXCEPT !.lines = Append(@, [ind |-> s.indent_level, txt |-> line])]
          ELSE [s EXCEPT !.lines = Append(@, [ind |-> 0, txt |-> line])]
    IN  CHOOSE r \in {append(v) : v \in {self}} : TRUE

_get_binop(op) ==
    CASE op = "Add" -> "+"
      [] op = "Sub" -> "-"
      [] op = "Mult" -> "*"
      [] op = "Div" -> "/"
      [] op = "Mod" -> "%"
      [] OTHER -> ObjectRepr(op)

_get_cmpop(op) ==
    CASE op = "Eq" -> "=="
      [] op = "NotEq" -> "!="
      [] op = "Lt" -> "<"
      [] op = "LtE" -> "<="
      [] op = "Gt" -> ">"
      [] op = "GtE" -> ">="
      [] OTHER -> ObjectRepr(op)

_get_type_annotation(node) ==
    IF node.kind = "Name"
    THEN CASE node.id = "int" -> "int"
           [] node.id = "str" -> "String"
           [] node.id = "float" -> "double"
           [] node.id = "bool" -> "boolean"
           [] node.id = "list" -> "List"
           [] node.id = "dict" -> "Map"
           [] OTHER -> "Object"
    ELSE "Object"

\* the isinstance chain is tried in the order written: int, float, str, bool
_infer_type(node) ==
    CASE node.kind = "Constant" ->
           (CASE IsInstance(node.ty, "int") -> "int"
              [] IsInstance(node.ty, "float") -> "double"
              [] IsInstance(node.ty, "str") -> "String"
              [] IsInstance(node.ty, "bool") -> "boolean"
              [] OTHER -> "Object")
      [] node.kind = "List" -> "List<Object>"
      [] node.kind = "Dict" -> "Map<Object, Object>"
      [] OTHER -> "Object"

RECURSIVE _get_value_code(_)

visit_JoinedStr(node) ==
    LET vals == SelectSeq(node.values,
                          LAMBDA v : v.kind \in {"Constant", "FormattedValue"})
        parts == [i \in 1..Len(vals) |->
                    IF vals[i].kind = "Constant" THEN "\"" \o vals[i].s \o "\""
                    ELSE _get_value_code(vals[i].value)]
    IN  JoinWith(parts, " + ")

_get_call_code(node) ==
    LET args == [i \in 1..Len(node.args) |-> _get_value_code(node.args[i])]
    IN  _get_value_code(node.func) \o "(" \o JoinWith(args, ", ") \o ")"

_get_value_code(node) ==
    CASE node.kind = "Name" -> node.id
      [] node.kind = "Constant" ->
           IF IsInstance(node.ty, "str") THEN "\"" \o node.s \o "\"" ELSE node.s
      [] node.kind = "List" ->
           LET elements == [i \in 1..Len(node.elts) |-> _get_value_code(node.elts[i])]
           IN  "Arrays.asList(" \o JoinWith(elements, ", ") \o ")"
      [] node.kind = "Dict" ->
           LET kv == Zip(node.keys, node.values)
               items == [i \in 1..Len(kv) |->
                           _get_value_code(kv[i][1]) \o ", " \o _get_value_code(kv[i][2])]
           IN  "Map.of(" \o JoinWith(items, ", ") \o ")"
      [] node.kind = "BinOp" ->
           "(" \o _get_value_code(node.left) \o " " \o _get_binop(node.op) \o " "
               \o _get_value_code(node.right) \o ")"
      [] node.kind = "Compare" ->
           IF node.comparators # <<>>
           THEN "(" \o _get_value_code(node.left) \o " " \o _get_cmpop(node.ops[1])
                    \o " " \o _get_value_code(node.comparators[1]) \o ")"
           ELSE ObjectRepr(node.kind)
      [] node.kind = "Call" -> _get_call_code(node)
      [] node.kind = "Attribute" -> _get_value_code(node.value) \o "." \o node.attr
      [] node.kind = "JoinedStr" -> visit_JoinedStr(node)
      [] OTHER -> ObjectRepr(node.kind)

RECURSIVE visit(_, _), visit_all(_, _)

\* for item in nodes: self.visit(item)
visit_all(self, nodes) ==
    IF nodes = <<>> THEN self ELSE visit_all(visit(self, nodes[1]), Tail(nodes))

\* mutant: the class name left on class_stack when the class ends
visit_ClassDef_no_pop(self, node) ==
    LET bases == SelectSeq(node.bases, LAMBDA b : b.kind = "Name")
        base_classes == [i \in 1..Len(bases) |-> bases[i].id]
        extends == IF base_classes # <<>>
                   THEN " extends " \o JoinWith(base_classes, ", ") ELSE ""
        s1 == add_line(self, "public class " \o node.name \o extends \o " {")
        s2 == [s1 EXCEPT !.class_stack = Append(@, node.name),
                         !.indent_level = @ + 1]
        s3 == visit_all(s2, node.body)
    IN  add_line([s3 EXCEPT !.indent_level = @ - 1], "}")

visit_ClassDef(self, node) ==
    LET bases == SelectSeq(node.bases, LAMBDA b : b.kind = "Name")
        base_classes == [i \in 1..Len(bases) |-> bases[i].id]
        extends == IF base_classes # <<>>
                   THEN " extends " \o JoinWith(base_classes, ", ") ELSE ""
        s1 == add_line(self, "public class " \o node.name \o extends \o " {")
        s2 == [s1 EXCEPT !.class_stack = Append(@, node.name),
                         !.indent_level = @ + 1]
        s3 == visit_all(s2, node.body)
        s4 == add_line([s3 EXCEPT !.indent_level = @ - 1], "}")
    IN  [s4 EXCEPT !.class_stack = SubSeq(@, 1, Len(@) - 1)]

\* the parameter type guessed from the method name (after renaming) and the
\* parameter name
ParamType(method_name, arg) ==
    IF method_name = "__init__" /\ arg = "name" THEN "String"
    ELSE IF arg \in {"a", "b", "x", "y"} THEN "int"
    ELSE "Object"

\* mutant: the first parameter dropped whatever its name
visit_FunctionDef_drop_first(self, node) ==
    LET method_name ==
            IF node.name = "__init__"
            THEN (IF self.class_stack # <<>>
                  THEN self.class_stack[Len(self.class_stack)] ELSE "Constructor")
            ELSE node.name
        kept == IF node.args = <<>> THEN <<>> ELSE Tail(node.args)
        params == [i \in 1..Len(kept) |->
                     ParamType(method_name, kept[i].arg) \o " " \o kept[i].arg]
        s1 == add_line(self, "public Object " \o method_name \o "("
                              \o JoinWith(params, ", ") \o ") {")
        s2 == [s1 EXCEPT !.in_method = TRUE, !.indent_level = @ + 1]
        s3 == visit_all(s2, node.body)
        s4 == add_line([s3 EXCEPT !.indent_level = self.indent_level], "}")
    IN  [s4 EXCEPT !.in_method = FALSE]

visit_FunctionDef(self, node) ==
    LET method_name ==
            IF node.name = "__init__"
            THEN (IF self.class_stack # <<>>
                  THEN self.class_stack[Len(self.class_stack)] ELSE "Constructor")
            ELSE node.name
        returns == IF node.returns.kind # "None"
                   THEN _get_type_annotation(node.returns) ELSE "Object"
        kept == SelectSeq(node.args, LAMBDA a : a.arg # "self")
        params == [i \in 1..Len(kept) |->
                     ParamType(method_name, kept[i].arg) \o " " \o kept[i].arg]
        s1 == add_line(self, "public " \o returns \o " " \o method_name \o "("
                              \o JoinWith(params, ", ") \o ") {")
        old_indent == self.indent_level
        s2 == [s1 EXCEPT !.in_method = TRUE, !.indent_level = @ + 1]
        s3 == visit_all(s2, node.body)
        s4 == add_line([s3 EXCEPT !.indent_level = old_indent], "}")
    IN  [s4 EXCEPT !.in_method = FALSE]

\* mutant: a chain of targets written like a single target
visit_Assign_one_line(self, node) ==
    LET named == SelectSeq(node.targets, LAMBDA t : t.kind = "Name")
        targets == [i \in 1..Len(named) |-> named[i].id]
    IN  IF targets # <<>> /\ node.value.kind # "None"
        THEN add_line(self, _infer_type(node.value) \o " " \o JoinWith(targets, ", ")
                             \o " = " \o _get_value_code(node.value) \o ";")
        ELSE self

visit_Assign(self, node) ==
    LET named == SelectSeq(node.targets, LAMBDA t : t.kind = "Name")
        targets == [i \in 1..Len(named) |-> named[i].id]
        var_type == _infer_type(node.value)
        var_names == JoinWith(targets, ", ")
        \* for target in targets: self.add_line(f"{target} = {value code};")
        RECURSIVE AssignLines(_, _)
        AssignLines(s, ts) ==
            IF ts = <<>> THEN s
            ELSE AssignLines(add_line(s, ts[1] \o " = " \o _get_value_code(node.value)
                                          \o ";"),
                             Tail(ts))
    IN  IF targets # <<>> /\ node.value.kind # "None"
        THEN IF Len(targets) = 1
             THEN add_line(self, var_type \o " " \o var_names \o " = "
                                  \o _get_value_code(node.value) \o ";")
             ELSE AssignLines(add_line(self, var_type \o " " \o var_names \o ";"),
                              targets)
        ELSE self

visit_Return(self, node) ==
    IF node.value.kind # "None"
    THEN add_line(self, "return " \o _get_value_code(node.value) \o ";")
    ELSE add_line(self, "return;")

\* mutant: the closing brace written before indent_level is lowered
Block_deep_close(self, header, body) ==
    LET s1 == add_line(self, header)
        s2 == visit_all([s1 EXCEPT !.indent_level = @ + 1], body)
        s3 == add_line(s2, "}")
    IN  [s3 EXCEPT !.indent_level = @ - 1]

\* a block: the opening line, the body one level deeper, the closing brace
Block(self, header, body) ==
    LET s1 == add_line(self, header)
        s2 == visit_all([s1 EXCEPT !.indent_level = @ + 1], body)
    IN  add_line([s2 EXCEPT !.indent_level = @ - 1], "}")

visit_If(self, node) ==
    LET s1 == Block(self, "if (" \o _get_value_code(node.test) \o ") {", node.body)
    IN  IF node.orelse # <<>> THEN Block(s1, "else {", node.orelse) ELSE s1

\* mutant: the body visited without raising indent_level
visit_For_flat(self, node) ==
    add_line(visit_all(add_line(self, "for (" \o _get_value_code(node.target) \o " : "
                                       \o _get_value_code(node.iter) \o ") {"),
                       node.body), "}")

visit_For(self, node) ==
    Block(self, "for (" \o _get_value_code(node.target) \o " : "
                 \o _get_value_code(node.iter) \o ") {", node.body)

visit_While(self, node) ==
    Block(self, "while (" \o _get_value_code(node.test) \o ") {", node.body)

visit_Expr(self, node) ==
    IF node.value.kind = "Call"
    THEN add_line(self, _get_call_code(node.value) \o ";")
    ELSE IF node.value.kind = "Constant" /\ IsInstance(node.value.ty, "str")
    THEN add_line(self, "System.out.println(\"" \o node.value.s \o "\");")
    ELSE self

\* ast.NodeVisitor.visit: visit_<ClassName> if the class has it, else
\* generic_visit.  visit_JoinedStr and visit_FormattedValue return a text and
\* leave the object alone.
visit(self, node) ==
    LET visitor(s) ==
          CASE node.kind = "ClassDef" -> visit_ClassDef(s, node)
            [] node.kind = "FunctionDef" -> visit_FunctionDef(s, node)
            [] node.kind = "Assign" -> visit_Assign(s, node)
            [] node.kind = "Return" -> visit_Return(s, node)
            [] node.kind = "If" -> visit_If(s, node)
            [] node.kind = "For" -> visit_For(s, node)
            [] node.kind = "While" -> visit_While(s, node)
            [] node.kind = "Expr" -> visit_Expr(s, node)
            [] node.kind \in {"JoinedStr", "FormattedValue"} -> s
            \* generic_visit: the children in turn
            [] OTHER -> visit_all(s, Children(node))
    IN  CHOOSE r \in {visitor(v) : v \in {self}} : TRUE

\* mutant: convert without its except clause
JavaStyleConverter_convert_unguarded(self, code) ==
    LET p == ast_parse(code)
        result(s) == [self |-> s, raised |-> "none", text |-> JoinWith(RenderLines(s.lines), "\n"),
                      lines |-> s.lines]
    IN  IF p.ok
        THEN CHOOSE r \in {result(v) : v \in {visit(self, p.tree)}} : TRUE
        ELSE [self |-> self, raised |-> p.exc, text |-> "", lines |-> <<>>]

\* JavaStyleConverter.convert: [self, raised, text, lines], lines being the
\* list the returned text is joined from (empty when no list is joined)
JavaStyleConverter_convert(self, code) ==
    LET p == ast_parse(code)
        package_lines == <<[ind |-> 0, txt |-> "package pythva.generated;"],
                           [ind |-> 0, txt |-> ""]>>
        out(s) == IF s.class_stack # <<>> THEN package_lines \o s.lines ELSE s.lines
        result(s) == [self |-> s, raised |-> "none", text |-> JoinWith(RenderLines(out(s)), "\n"),
                      lines |-> out(s)]
    IN  IF p.ok
        THEN CHOOSE r \in {result(v) : v \in {visit(self, p.tree)}} : TRUE
        \* except SyntaxError: the class and its subclasses
        ELSE IF p.exc \in {"SyntaxError", "IndentationError", "TabError"}
        THEN [self |-> self, raised |-> "none",
              text |-> SyntaxErrorMarker \o p.msg \o "\n" \o code, lines |-> <<>>]
        ELSE [self |-> self, raised |-> p.exc, text |-> "", lines |-> <<>>]

convert_python_to_java_style(code) ==
    JavaStyleConverter_convert(JavaStyleConverter_init, code)

(***************************************************************************)
(* src/mapper.py: EnhancedConverter, the mapping-augmented variant.        *)
(* The object is the record [imports, lines, indent_level, in_class].      *)
(***************************************************************************)
\* the note the import handlers append to a commented-out import: "(" followed
\* by the six CJK characters U+9700 U+8981 U+624B U+52A8 U+8F6C U+6362
\* ("needs manual conversion") and ")"
ManualNote == "(<U+9700><U+8981><U+624B><U+52A8><U+8F6C><U+6362>)"

EnhancedConverter_init ==
    [imports |-> <<>>, lines |-> <<>>, indent_level |-> 0, in_class |-> FALSE]

Enhanced_add_line(self, line) ==
    LET append(s) ==
          \* line.strip(), for the lines the converters build
          IF line \notin {"", " ", "    ", "\n", "\t"}
          THEN [s EXCEPT !.lines = Append(@, [ind |-> s.indent_level, txt |-> line])]
          ELSE [s EXCEPT !.lines = Append(@, [ind |-> 0, txt |-> line])]
    IN  CHOOSE r \in {append(v) : v \in {self}} : TRUE

\* ast.walk: breadth first, from a queue of nodes
ast_walk(tree) ==
    LET RECURSIVE WalkFrom(_)
        WalkFrom(todo) ==
            LET popleft(q) ==
                  IF q = <<>> THEN <<>>
                  ELSE <<q[1]>> \o WalkFrom(Tail(q) \o Children(q[1]))
            IN  CHOOSE r \in {popleft(v) : v \in {todo}} : TRUE
    IN  WalkFrom(<<tree>>)

_collect_info(self, tree) ==
    LET \* what is appended for one node of the walk
        CollectedFor(node) ==
            CASE node.kind = "List" ->
                   <<"import java.util.List;", "import java.util.ArrayList;">>
              [] node.kind = "Dict" ->
                   <<"import java.util.Map;", "import java.util.HashMap;">>
              [] OTHER -> <<>>
        RECURSIVE CollectAll(_, _)
        CollectAll(imports, nodes) ==
            IF nodes = <<>> THEN imports
            ELSE CollectAll(imports \o CollectedFor(nodes[1]), Tail(nodes))
    IN  [self EXCEPT !.imports = CollectAll(@, ast_walk(tree))]

Enhanced_get_binop(op) ==
    CASE op = "Add" -> "+"
      [] op = "Sub" -> "-"
      [] op = "Mult" -> "*"
      [] op = "Div" -> "/"
      [] op = "Mod" -> "%"
      [] op = "Pow" -> "**"
      [] op = "LShift" -> "<<"
      [] op = "RShift" -> ">>"
      [] op = "BitOr" -> "|"
      [] op = "BitXor" -> "^"
      [] op = "BitAnd" -> "&"
      [] op = "FloorDiv" -> "//"
      [] OTHER -> ObjectRepr(op)

RECURSIVE Enhanced_get_value_code(_)

visit_List(node) ==
    IF node.elts # <<>>
    THEN LET elements == [i \in 1..Len(node.elts) |-> Enhanced_get_value_code(node.elts[i])]
         IN  "Arrays.asList(" \o JoinWith(elements, ", ") \o ")"
    ELSE "new ArrayList<>()"

visit_Dict(node) ==
    IF node.keys # <<>> /\ node.values # <<>>
    THEN LET kv == Zip(node.keys, node.values)
             items == [i \in 1..Len(kv) |->
                         Enhanced_get_value_code(kv[i][1]) \o ", "
                           \o Enhanced_get_value_code(kv[i][2])]
         IN  "Map.of(" \o JoinWith(items, ", ") \o ")"
    ELSE "new HashMap<>()"

visit_Call(node) ==
    LET func_name == Enhanced_get_value_code(node.func)
        args == [i \in 1..Len(node.args) |-> Enhanced_get_value_code(node.args[i])]
    IN  CASE func_name = "print" -> "System.out.println(" \o JoinWith(args, ", ") \o ")"
          [] func_name = "len" /\ node.args # <<>> -> args[1] \o ".size()"
          [] func_name = "range" /\ Len(node.args) = 1 ->
               "IntStream.range(0, " \o args[1] \o ")"
          [] func_name = "range" /\ Len(node.args) = 2 ->
               "IntStream.range(" \o args[1] \o ", " \o args[2] \o ")"
          [] OTHER -> func_name \o "(" \o JoinWith(args, ", ") \o ")"

\* EnhancedConverter._get_value_code: no rule for Compare, Attribute, JoinedStr
Enhanced_get_value_code(node) ==
    CASE node.kind = "Name" -> node.id
      [] node.kind = "Constant" ->
           IF IsInstance(node.ty, "str") THEN "\"" \o node.s \o "\"" ELSE node.s
      [] node.kind = "List" -> visit_List(node)
      [] node.kind = "Dict" -> visit_Dict(node)
      [] node.kind = "Call" -> visit_Call(node)
      [] node.kind = "BinOp" ->
           "(" \o Enhanced_get_value_code(node.left) \o " " \o Enhanced_get_binop(node.op)
               \o " " \o Enhanced_get_value_code(node.right) \o ")"
      [] OTHER -> ObjectRepr(node.kind)

visit_Import(self, node) ==
    LET RECURSIVE ImportLines(_, _)
        ImportLines(s, names) ==
            IF names = <<>> THEN s
            ELSE ImportLines(
                   IF names[1] \in {"pythva", "pythva.core"}    \* module_name.startswith('pythva')
                   THEN Enhanced_add_line(s, "import " \o names[1] \o ".*;")
                   ELSE Enhanced_add_line(s, "// import " \o names[1] \o " " \o ManualNote),
                   Tail(names))
    IN  ImportLines(self, node.names)

\* node.module is None for "from . import x": modelled as ""
visit_ImportFrom(self, node) ==
    LET RECURSIVE ImportFromNames(_, _, _)
        ImportFromNames(s, module, names) ==
            IF names = <<>> THEN s
            ELSE ImportFromNames(
                   IF module = "typing" /\ names[1] = "List"
                   THEN [s EXCEPT !.imports = Append(@, "import java.util.List;")]
                   ELSE IF module = "typing" /\ names[1] = "Dict"
                   THEN [s EXCEPT !.imports = Append(@, "import java.util.Map;")]
                   ELSE Enhanced_add_line(s, "// from " \o module \o " import " \o names[1]
                                                 \o " " \o ManualNote),
                   module, Tail(names))
    IN  IF node.module # "" THEN ImportFromNames(self, node.module, node.names) ELSE self

RECURSIVE Enhanced_visit(_, _), Enhanced_visit_all(_, _)

Enhanced_visit_all(self, nodes) ==
    IF nodes = <<>> THEN self
    ELSE Enhanced_visit_all(Enhanced_visit(self, nodes[1]), Tail(nodes))

\* visit_List, visit_Dict and visit_Call return a text and leave the object
\* alone; no other node kind has a visit method
Enhanced_visit(self, node) ==
    LET visitor(s) ==
          CASE node.kind = "Import" -> visit_Import(s, node)
            [] node.kind = "ImportFrom" -> visit_ImportFrom(s, node)
            [] node.kind \in {"List", "Dict", "Call"} -> s
            [] OTHER -> Enhanced_visit_all(s, Children(node))
    IN  CHOOSE r \in {visitor(v) : v \in {self}} : TRUE

\* EnhancedConverter.convert: [self, raised, text, lines]; ast.parse is not
\* guarded, so what it raises leaves convert
EnhancedConverter_convert(self, code) ==
    LET p == ast_parse(code)
        all_lines(s) ==
            IF s.imports # <<>>
            THEN [i \in 1..Len(s.imports) |-> [ind |-> 0, txt |-> s.imports[i]]]
                   \o <<[ind |-> 0, txt |-> ""]>> \o s.lines
            ELSE s.lines
        result(s) == [self |-> s, raised |-> "none", text |-> JoinWith(RenderLines(all_lines(s)), "\n"),
                      lines |-> all_lines(s)]
    IN  IF p.ok
        THEN CHOOSE r \in {result(v) :
                           v \in {Enhanced_visit(_collect_info(self, p.tree), p.tree)}} : TRUE
        ELSE [self |-> self, raised |-> p.exc, text |-> "", lines |-> <<>>]

convert_with_mapping(code) == EnhancedConverter_convert(EnhancedConverter_init, code)

(***************************************************************************)
(* src/mapper.py: SyntaxMapper.  The class is the record of its three      *)
(* tables; a class method takes the class and returns [cls, value].        *)
(* get_required_imports works on texts as sequences of characters.         *)
(***************************************************************************)
TYPE_MAPPING ==
    ("int" :> "int") @@ ("float" :> "double") @@ ("str" :> "String")
      @@ ("bool" :> "boolean") @@ ("list" :> "List") @@ ("dict" :> "Map")
      @@ ("tuple" :> "List") @@ ("set" :> "Set") @@ ("None" :> "null")
      @@ ("True" :> "true") @@ ("False" :> "false")

FUNCTION_MAPPING ==
    ("print" :> "System.out.println") @@ ("len" :> "Collection.size")
      @@ ("range" :> "IntStream.range") @@ ("enumerate" :> "List.of")
      @@ ("zip" :> "List.of") @@ ("sum" :> "Collection.sum")
      @@ ("max" :> "Collections.max") @@ ("min" :> "Collections.min")
      @@ ("abs" :> "Math.abs") @@ ("round" :> "Math.round")

MAGIC_METHODS ==
    ("__init__" :> "constructor") @@ ("__str__" :> "toString")
      @@ ("__repr__" :> "toString") @@ ("__len__" :> "size")
      @@ ("__getitem__" :> "get") @@ ("__setitem__" :> "set")
      @@ ("__iter__" :> "iterator") @@ ("__next__" :> "next")
      @@ ("__eq__" :> "equals") @@ ("__lt__" :> "compareTo")
      @@ ("__le__" :> "compareTo") @@ ("__gt__" :> "compareTo")
      @@ ("__ge__" :> "compareTo") @@ ("__add__" :> "plus")
      @@ ("__sub__" :> "minus") @@ ("__mul__" :> "multiply")
      @@ ("__truediv__" :> "divide")

SyntaxMapper_class ==
    [TYPE_MAPPING |-> TYPE_MAPPING, FUNCTION_MAPPING |-> FUNCTION_MAPPING,
     MAGIC_METHODS |-> MAGIC_METHODS]

\* mutant: the name itself as the default
map_type_identity(cls, python_type) ==
    [cls |-> cls,
     value |-> IF python_type \in DOMAIN cls.TYPE_MAPPING
               THEN cls.TYPE_MAPPING[python_type] ELSE python_type]

map_type(cls, python_type) ==
    \* cls.TYPE_MAPPING.get(python_type, "Object")
    [cls |-> cls,
     value |-> IF python_type \in DOMAIN cls.TYPE_MAPPING
               THEN cls.TYPE_MAPPING[python_type] ELSE "Object"]

map_function(cls, func_name) ==
    [cls |-> cls,
     value |-> IF func_name \in DOMAIN cls.FUNCTION_MAPPING
               THEN cls.FUNCTION_MAPPING[func_name] ELSE func_name]

map_magic_method(cls, magic_method) ==
    [cls |-> cls,
     value |-> IF magic_method \in DOMAIN cls.MAGIC_METHODS
               THEN cls.MAGIC_METHODS[magic_method] ELSE magic_method]

\* a < b for two Python strings: by code point (ord), a proper prefix first
RECURSIVE StrLess(_, _)
StrLess(a, b) ==
    LET UpperCase == <<"A", "B", "C", "D", "E", "F", "G", "H", "I", "J", "K", "L", "M",
                       "N", "O", "P", "Q", "R", "S", "T", "U", "V", "W", "X", "Y", "Z">>
        LowerCase == <<"a", "b", "c", "d", "e", "f", "g", "h", "i", "j", "k", "l", "m",
                       "n", "o", "p", "q", "r", "s", "t", "u", "v", "w", "x", "y", "z">>
        CodePoint(c) ==
            CASE c = " " -> 32
              [] c = "." -> 46
              [] c = ";" -> 59
              [] \E i \in 1..26 : UpperCase[i] = c ->
                   64 + (CHOOSE i \in 1..26 : UpperCase[i] = c)
              [] \E i \in 1..26 : LowerCase[i] = c ->
                   96 + (CHOOSE i \in 1..26 : LowerCase[i] = c)
    IN  IF b = <<>> THEN FALSE
        ELSE IF a = <<>> THEN TRUE
        ELSE IF a[1] # b[1] THEN CodePoint(a[1]) < CodePoint(b[1])
        ELSE StrLess(Tail(a), Tail(b))

\* sub in text
Contains(text, sub) ==
    \E i \in 0..(Len(text) - Len(sub)) : SubSeq(text, i + 1, i + Len(sub)) = sub

RECURSIVE Sorted(_)
\* sorted(list(strs)) for a set of strings
Sorted(strs) ==
    IF strs = {} THEN <<>>
    ELSE LET least == CHOOSE x \in strs : \A y \in strs \ {x} : StrLess(x, y)
         IN  <<least>> \o Sorted(strs \ {least})

\* the words of the texts, as sequences of characters
Word ==
    [ List |-> <<"L", "i", "s", "t">>,
      Map |-> <<"M", "a", "p">>,
      Set |-> <<"S", "e", "t">>,
      Arrays |-> <<"A", "r", "r", "a", "y", "s">>,
      Collections |-> <<"C", "o", "l", "l", "e", "c", "t", "i", "o", "n", "s">>,
      ArrayList |-> <<"A", "r", "r", "a", "y", "L", "i", "s", "t">>,
      HashMap |-> <<"H", "a", "s", "h", "M", "a", "p">>,
      HashSet |-> <<"H", "a", "s", "h", "S", "e", "t">> ]

\* 'import java.util.<name>;'
JavaUtilImport(name) ==
    <<"i", "m", "p", "o", "r", "t", " ", "j", "a", "v", "a", ".", "u", "t", "i", "l", ".">>
      \o name \o <<";">>

\* what the branch of a type name adds to the set
ImportsOf(type_name) ==
    CASE type_name = Word.List -> {JavaUtilImport(Word.List), JavaUtilImport(Word.ArrayList)}
      [] type_name = Word.Map -> {JavaUtilImport(Word.Map), JavaUtilImport(Word.HashMap)}
      [] type_name = Word.Set -> {JavaUtilImport(Word.Set), JavaUtilImport(Word.HashSet)}
      [] type_name = Word.Arrays -> {JavaUtilImport(Word.Arrays)}
      [] type_name = Word.Collections -> {JavaUtilImport(Word.Collections)}

TypeNames == {Word.List, Word.Map, Word.Set, Word.Arrays, Word.Collections}

\* mutant: list(imports) returned without sorting, here in descending order
get_required_imports_unsorted(code) ==
    LET sorted == Sorted(UNION {ImportsOf(t) : t \in {n \in TypeNames : Contains(code, n)}})
    IN  [i \in 1..Len(sorted) |-> sorted[Len(sorted) + 1 - i]]

get_required_imports(code) ==
    Sorted(UNION {ImportsOf(t) : t \in {n \in TypeNames : Contains(code, n)}})

(***************************************************************************)
(* The calls.                                                              *)
(***************************************************************************)
(***************************************************************************)
(* ConversionCache (src/optimizer.py): a dict from the hash of a source    *)
(* text to a CacheEntry, with a capacity max_size.  No cache file is       *)
(* given, so _load_cache and save_cache do nothing.  The field timestamp   *)
(* of an entry, read by get_stats and save_cache only, is left out.        *)
(***************************************************************************)
MaxSize == 2         \* the capacities tried are 0..MaxSize
MaxTime == 2         \* time.time() reads 1..MaxTime
MaxAccess == 2       \* the entries of the cache are read at most MaxAccess times in all

\* The calls put(code, text) made; get is called with the same source texts.
\* The last two source texts differ in one letter (...Q4hAcKS... / ...Q4hEcKS...)
\* and have the same md5 digest.
CachePuts ==
    { [code |-> "x = 1", text |-> "int x = 1;"],
      [code |-> "x = 1", text |-> "var x = 1;"],
      [code |-> "y = 2", text |-> "int y = 2;"],
      [code |-> "TEXTCOLLBYfGiJUETHQ4hAcKSMd5zYpgqf1YRDhkmxHkhPWptrkoyz28wnI9V0aHeAuaKnak",
       text |-> "TEXTCOLLBY;"],
      [code |-> "TEXTCOLLBYfGiJUETHQ4hEcKSMd5zYpgqf1YRDhkmxHkhPWptrkoyz28wnI9V0aHeAuaKnak",
       text |-> "TEXTCOLLBY;"] }

\* hashlib.md5(code.encode('utf-8')).hexdigest()
_get_code_hash(code) ==
    CASE code = "x = 1" -> "d37ffc54b67ce8de1f01efb1f2e33689"
      [] code = "y = 2" -> "5f08418eb7c8408d717c2e2fe422ab3c"
      [] code = "x = 10\n" -> "649b8592f3b63bc2a7c90f6c4435ab76"
      [] code = "def f(:\n" -> "f7e0628e80c6ebae0baf0ed050af05d8"
      [] code = "if x > 0:\n    g(x)\n" -> "4594cc76aa3ef484f110595d740a6b68"
      [] OTHER -> "faad49866e9498fc1719f5289e7a0269"

\* code_hash in self.cache
InCache(entries, code_hash) ==
    \E i \in 1..Len(entries) : entries[i].code_hash = code_hash

ConversionCache_get_uncounted(self, code, now) ==
    LET code_hash == _get_code_hash(code)
    IN  IF InCache(self.cache, code_hash)
        THEN [self |-> self,
              value |-> self.cache[CHOOSE i \in 1..Len(self.cache) :
                                       self.cache[i].code_hash = code_hash].converted_code]
        ELSE [self |-> self, value |-> "None"]

\* get: [self, value]
ConversionCache_get(self, code, now) ==
    LET code_hash == _get_code_hash(code)
    IN  IF InCache(self.cache, code_hash)
        THEN LET i == CHOOSE i \in 1..Len(self.cache) : self.cache[i].code_hash = code_hash
                 entry == self.cache[i]
             IN  [self |-> [self EXCEPT !.cache[i] =
                               [entry EXCEPT !.access_count = entry.access_count + 1,
                                             !.last_accessed = now]],
                  value |-> entry.converted_code]
        ELSE [self |-> self, value |-> "None"]

\* min(self.cache.values(), key=lambda e: (e.last_accessed, -e.access_count)):
\* the first entry, in the order of the dict, that no entry is smaller than
_evict_oldest_first(self) ==
    IF self.cache = <<>> THEN self
    ELSE [self EXCEPT !.cache = Tail(self.cache)]

_evict_oldest(self) ==
    IF self.cache = <<>> THEN self
    ELSE LET entries == self.cache
             KeyLess(a, b) ==
                 \/ a.last_accessed < b.last_accessed
                 \/ /\ a.last_accessed = b.last_accessed
                    /\ (0 - a.access_count) < (0 - b.access_count)
             IsMin(i) == \A j \in 1..Len(entries) : ~KeyLess(entries[j], entries[i])
             oldest == CHOOSE i \in 1..Len(entries) :
                           IsMin(i) /\ \A j \in 1..(i - 1) : ~IsMin(j)
         IN  [self EXCEPT !.cache =
                 SubSeq(entries, 1, oldest - 1) \o SubSeq(entries, oldest + 1, Len(entries))]

\* put: self afterwards
ConversionCache_put(self, code, converted_code) ==
    LET code_hash == _get_code_hash(code)
        room == IF Len(self.cache) >= self.max_size /\ ~InCache(self.cache, code_hash)
                THEN _evict_oldest(self) ELSE self
        entry == [code_hash |-> code_hash, converted_code |-> converted_code,
                  access_count |-> 0, last_accessed |-> 0]
    IN  IF InCache(room.cache, code_hash)
        THEN LET i == CHOOSE i \in 1..Len(room.cache) : room.cache[i].code_hash = code_hash
             IN  [room EXCEPT !.cache[i] = entry]
        ELSE [room EXCEPT !.cache = Append(room.cache, entry)]

\* cache = ConversionCache(max_size)
CacheNew(max_size) ==
    /\ cache' = [max_size |-> max_size, cache |-> <<>>]
    /\ ccall' = [fn |-> "__init__", code |-> "", text |-> ""]
    /\ cret' = [value |-> "None"]
    /\ cprev' = <<>>
    /\ puts' = <<>>
    /\ UNCHANGED <<clock, call, ret, conv, enh, mapper, mcall, mret, mprev, manager, reporter, pcall, pret, opt, ocall, oret, oprev, ocalls>>

\* cache.get(code)
CacheGet(code, now) ==
    LET r == ConversionCache_get(cache, code, now)
        RECURSIVE reads(_)
        reads(entries) == IF entries = <<>> THEN 0
                          ELSE Head(entries).access_count + reads(Tail(entries))
    IN  /\ InCache(cache.cache, _get_code_hash(code)) => reads(cache.cache) < MaxAccess
        /\ cache' = r.self
        /\ clock' = IF InCache(cache.cache, _get_code_hash(code)) THEN now ELSE clock
        /\ ccall' = [fn |-> "get", code |-> code, text |-> ""]
        /\ cret' = [value |-> r.value]
        /\ cprev' = cache.cache
        /\ UNCHANGED <<puts, call, ret, conv, enh, mapper, mcall, mret, mprev, manager, reporter, pcall, pret, opt, ocall, oret, oprev, ocalls>>

\* cache.put(code, converted_code)
CachePut(code, converted_code) ==
    LET after == ConversionCache_put(cache, code, converted_code)
        live(c) == InCache(after.cache, _get_code_hash(c))
    IN  /\ cache' = after
        /\ ccall' = [fn |-> "put", code |-> code, text |-> converted_code]
        /\ cret' = [value |-> "None"]
        /\ cprev' = cache.cache
        /\ puts' = Append(SelectSeq(puts, LAMBDA p : p.code # code /\ live(p.code)),
                          [code |-> code, text |-> converted_code])
        /\ UNCHANGED <<clock, call, ret, conv, enh, mapper, mcall, mret, mprev, manager, reporter, pcall, pret, opt, ocall, oret, oprev, ocalls>>

\* cache.clear()
CacheClear ==
    /\ cache' = [cache EXCEPT !.cache = <<>>]
    /\ ccall' = [fn |-> "clear", code |-> "", text |-> ""]
    /\ cret' = [value |-> "None"]
    /\ cprev' = <<>>
    /\ puts' = <<>>
    /\ UNCHANGED <<clock, call, ret, conv, enh, mapper, mcall, mret, mprev, manager, reporter, pcall, pret, opt, ocall, oret, oprev, ocalls>>

NextCache ==
    \/ \E max_size \in 0..MaxSize : CacheNew(max_size)
    \* time.time() reads what it read last or later: now
    \/ \E p \in CachePuts, now \in {t \in {clock, clock + 1} : t <= MaxTime} :
           CacheGet(p.code, now)
    \/ \E p \in CachePuts : CachePut(p.code, p.text)
    \/ CacheClear

(***************************************************************************)
(* PluginManager (src/plugins/base.py) and the ErrorReporter it reports    *)
(* to (src/errors.py).  A plugin object is [name, enabled, transform]: its *)
(* preprocess and postprocess both behave as transform says.               *)
(***************************************************************************)
MaxPlugins == 2      \* plugins registered besides the built-in ones
MaxErrors == 2       \* a pass starts with at most MaxErrors errors reported

\* What the transform of a plugin does with a text:
\*   "identity"    returns it (the built-in plugins)
\*   "append"      returns it with a mark of the plugin and of the pass added
\*   "ValueError"  raises ValueError("x")
\*   "SystemExit"  calls sys.exit(), which raises SystemExit, no Exception
\*   "BadStr"      raises an Exception whose __str__ raises RuntimeError
\*   (the value of the field transform of a plugin)

\* PluginManager(): _load_builtin_plugins registers get_builtin_plugins()
PluginManager_init ==
    LET names == <<"comment_preserver", "type_annotation", "string_formatter",
                   "code_style", "import_optimizer">>
    IN  [plugins |-> [i \in 1..Len(names) |-> names[i]],
         conversion_plugins |->
             [i \in 1..Len(names) |->
                 [name |-> names[i], enabled |-> TRUE, transform |-> "identity"]]]

\* self.plugins as the place in conversion_plugins of the plugin of that name,
\* 0 without one: plugins[i] is the name under which object i is registered,
\* "" when a later plugin has taken its name
Registered(self, plugin_name) ==
    IF \E i \in 1..Len(self.plugins) : self.plugins[i] = plugin_name
    THEN CHOOSE i \in 1..Len(self.plugins) : self.plugins[i] = plugin_name
    ELSE 0

\* get_conversion_plugins
get_conversion_plugins(self) ==
    SelectSeq(self.conversion_plugins, LAMBDA p : p.enabled)

\* preprocess_code / postprocess_code (fn): [raised, value, reported]
process_code(self, fn, code) ==
    LET RECURSIVE loop(_, _, _)
        loop(todo, text, reported) ==
            IF todo = <<>> THEN [raised |-> "none", value |-> text, reported |-> reported]
            ELSE LET plugin == Head(todo)
                 IN  CASE plugin.transform = "identity" ->
                            loop(Tail(todo), text, reported)
                       [] plugin.transform = "append" ->
                            loop(Tail(todo), text \o " #" \o fn \o ":" \o plugin.name,
                                 reported)
                       \* except Exception as e: report_error(PluginError(... {e}))
                       [] plugin.transform = "ValueError" ->
                            loop(Tail(todo), text,
                                 Append(reported, [kind |-> "PluginError",
                                                   plugin |-> plugin.name, fn |-> fn,
                                                   e |-> "x"]))
                       \* SystemExit is no Exception: no handler
                       [] plugin.transform = "SystemExit" ->
                            [raised |-> "SystemExit", value |-> "", reported |-> reported]
                       \* str(e) raises inside the handler
                       [] plugin.transform = "BadStr" ->
                            [raised |-> "RuntimeError", value |-> "", reported |-> reported]
    IN  loop(get_conversion_plugins(self), code, <<>>)

\* manager.register_plugin(plugin): a warning when the name is taken, then
\* self.plugins[plugin.name] = plugin and conversion_plugins.append(plugin);
\* no name is in plugin_config.enabled_plugins
RegisterPlugin(plugin) ==
    LET old == Registered(manager, plugin.name)
    IN  /\ Len(manager.conversion_plugins) < Len(PluginManager_init.plugins) + MaxPlugins
        /\ manager' = [plugins |->
                           Append([i \in 1..Len(manager.plugins) |->
                                      IF i = old THEN "" ELSE manager.plugins[i]],
                                  plugin.name),
                       conversion_plugins |-> Append(manager.conversion_plugins, plugin)]
        /\ reporter' = IF old # 0
                       THEN [reporter EXCEPT !.warnings = Append(@, plugin.name)]
                       ELSE reporter
        /\ pcall' = [fn |-> "register_plugin", arg |-> plugin.name]
        /\ pret' = [raised |-> "none", value |-> "", reported |-> <<>>]
        /\ UNCHANGED <<call, ret, conv, enh, mapper, mcall, mret, mprev, cache, clock, ccall, cret, cprev, puts, opt, ocall, oret, oprev, ocalls>>

\* manager.enable_plugin(plugin_name) / manager.disable_plugin(plugin_name):
\* plugin = self.plugins[plugin_name]; activate() and deactivate() return True,
\* so plugin.enabled is set
SetEnabled(plugin_name, enabled) ==
    /\ Registered(manager, plugin_name) # 0
    /\ manager' = [manager EXCEPT
                      !.conversion_plugins[Registered(manager, plugin_name)].enabled = enabled]
    /\ pcall' = [fn |-> IF enabled THEN "enable_plugin" ELSE "disable_plugin",
                 arg |-> plugin_name]
    /\ pret' = [raised |-> "none", value |-> "True", reported |-> <<>>]
    /\ UNCHANGED <<reporter, call, ret, conv, enh, mapper, mcall, mret, mprev, cache, clock, ccall, cret, cprev, puts, opt, ocall, oret, oprev, ocalls>>

\* manager.unregister_plugin(plugin_name): False without a plugin of that
\* name; else the plugin registered under the name is taken out of
\* conversion_plugins and the name out of self.plugins
UnregisterPlugin(plugin_name) ==
    LET i == Registered(manager, plugin_name)
        without(seq) == SubSeq(seq, 1, i - 1) \o SubSeq(seq, i + 1, Len(seq))
    IN  /\ manager' = IF i = 0 THEN manager
                      ELSE [plugins |-> without(manager.plugins),
                            conversion_plugins |-> without(manager.conversion_plugins)]
        /\ pcall' = [fn |-> "unregister_plugin", arg |-> plugin_name]
        /\ pret' = [raised |-> "none", value |-> IF i = 0 THEN "False" ELSE "True",
                    reported |-> <<>>]
        /\ UNCHANGED <<reporter, call, ret, conv, enh, mapper, mcall, mret, mprev, cache, clock, ccall, cret, cprev, puts, opt, ocall, oret, oprev, ocalls>>

\* manager.preprocess_code(code) / manager.postprocess_code(code)
ProcessCode(fn, code) ==
    LET r == process_code(manager, fn, code)
    IN  /\ Len(reporter.errors) <= MaxErrors
        /\ reporter' = [reporter EXCEPT !.errors = @ \o r.reported]
        /\ pcall' = [fn |-> fn, arg |-> code]
        /\ pret' = r
        /\ UNCHANGED <<manager, call, ret, conv, enh, mapper, mcall, mret, mprev, cache, clock, ccall, cret, cprev, puts, opt, ocall, oret, oprev, ocalls>>

NextPlugins ==
    \/ \E name \in {"a", "b"},
          transform \in {"append", "ValueError", "SystemExit", "BadStr"} :
           RegisterPlugin([name |-> name, enabled |-> TRUE, transform |-> transform])
    \/ \E name \in {"a", "b", "code_style"}, enabled \in BOOLEAN : SetEnabled(name, enabled)
    \/ \E code \in {"x = 1"} : ProcessCode("preprocess_code", code)
    \/ \E code \in {"int x = 1;"} : ProcessCode("postprocess_code", code)

(***************************************************************************)
(* OptimizedConverter (src/optimizer.py): the two conversion functions     *)
(* behind a ConversionCache, with a PerformanceMonitor and a CodeOptimizer.*)
(* The object is [cache, monitor]: cache is the ConversionCache or None,   *)
(* monitor the counters of PerformanceMetrics (the timings are left out).  *)
(***************************************************************************)
MaxCalls == 3        \* convert is called at most MaxCalls times on an object

OptimizedConverter_init(cache_enabled, max_cache_size) ==
    [cache |-> IF cache_enabled THEN [max_size |-> max_cache_size, cache |-> <<>>]
               ELSE NoneNode,
     monitor |-> [cache_hits |-> 0, cache_misses |-> 0, total_conversions |-> 0]]

Init ==
    /\ call = [fn |-> "none", code |-> ""]
    /\ ret = [raised |-> "none", text |-> "", lines |-> <<>>]
    /\ conv = JavaStyleConverter_init
    /\ enh = EnhancedConverter_init
    /\ mapper = SyntaxMapper_class
    /\ mcall = [fn |-> "none", arg |-> ""]
    /\ mret = [value |-> ""]
    /\ mprev = [same |-> FALSE, value |-> ""]
    /\ cache = [max_size |-> MaxSize, cache |-> <<>>]
    /\ clock = 1
    /\ ccall = [fn |-> "none", code |-> "", text |-> ""]
    /\ cret = [value |-> "None"]
    /\ cprev = <<>>
    /\ puts = <<>>
    /\ manager = PluginManager_init
    /\ reporter = [errors |-> <<>>, warnings |-> <<>>]
    /\ pcall = [fn |-> "none", arg |-> ""]
    /\ pret = [raised |-> "none", value |-> "", reported |-> <<>>]
    /\ opt = OptimizedConverter_init(TRUE, MaxSize)
    /\ ocall = [fn |-> "none", code |-> "", use_enhanced |-> FALSE, optimize |-> FALSE]
    /\ oret = [raised |-> "none", text |-> "", converted |-> FALSE]
    /\ oprev = OptimizedConverter_init(TRUE, MaxSize)
    /\ ocalls = 0

\* Both functions build their converter afresh, so what a call does is a
\* function of its argument: tabulated once over the input texts.
BasicCalls == [code \in Codes |-> convert_python_to_java_style(code)]

EnhancedCalls == [code \in Codes |-> convert_with_mapping(code)]

ConvertBasic(code) ==
    LET r == BasicCalls[code]
    IN  /\ call' = [fn |-> "convert_python_to_java_style", code |-> code]
        /\ ret' = [raised |-> r.raised, text |-> r.text, lines |-> r.lines]
        /\ conv' = r.self
        /\ enh' = EnhancedConverter_init
        /\ UNCHANGED <<mapper, mcall, mret, mprev>>
        /\ UNCHANGED <<cache, clock, ccall, cret, cprev, puts, manager, reporter, pcall, pret, opt, ocall, oret, oprev, ocalls>>

ConvertEnhanced(code) ==
    LET r == EnhancedCalls[code]
    IN  /\ call' = [fn |-> "convert_with_mapping", code |-> code]
        /\ ret' = [raised |-> r.raised, text |-> r.text, lines |-> r.lines]
        /\ enh' = r.self
        /\ conv' = JavaStyleConverter_init
        /\ UNCHANGED <<mapper, mcall, mret, mprev>>
        /\ UNCHANGED <<cache, clock, ccall, cret, cprev, puts, manager, reporter, pcall, pret, opt, ocall, oret, oprev, ocalls>>

Next ==
    \/ \E code \in Codes : ConvertBasic(code)
    \/ \E code \in Codes : ConvertEnhanced(code)

Spec == Init /\ [][Next]_vars

SpecCache == Init /\ [][NextCache]_vars

SpecPlugins == Init /\ [][NextPlugins]_vars

(***************************************************************************)
(* The calls of the SyntaxMapper class methods.                            *)
(***************************************************************************)
MaxFrags == 2        \* a scanned text is made of at most MaxFrags fragments

\* names looked up in the tables: every key, and names that are no key
LookupNames ==
    DOMAIN TYPE_MAPPING \cup DOMAIN FUNCTION_MAPPING \cup DOMAIN MAGIC_METHODS
      \cup {"", "Foo", "object", "bytes", "List", "__call__", "compute"}

\* the texts get_required_imports is called on: at most MaxFrags pieces
Texts ==
    LET TextFrags ==
            {Word.List, Word.Map, Word.Set, Word.Arrays, Word.Collections,
             <<"L", "i", "s">>, <<"t">>, <<" ">>, <<"H", "a", "s", "h">>}
        RECURSIVE TextsOf(_)
        TextsOf(n) ==
            IF n = 0 THEN {<<>>}
            ELSE TextsOf(n - 1) \cup {t \o f : t \in TextsOf(n - 1), f \in TextFrags}
    IN  TextsOf(MaxFrags)

\* get_required_imports reads nothing but its argument: tabulated once
RequiredImports == [code \in Texts |-> get_required_imports(code)]

MapperCall(fn, arg, r) ==
    /\ mcall' = [fn |-> fn, arg |-> arg]
    /\ mapper' = r.cls
    /\ mret' = [value |-> r.value]
    /\ mprev' = IF mcall.fn = fn /\ mcall.arg = arg
                THEN [same |-> TRUE, value |-> mret.value]
                ELSE [same |-> FALSE, value |-> ""]
    /\ UNCHANGED <<call, ret, conv, enh>>
    /\ UNCHANGED <<cache, clock, ccall, cret, cprev, puts, manager, reporter, pcall, pret, opt, ocall, oret, oprev, ocalls>>

NextMapper ==
    \/ \E name \in LookupNames : MapperCall("map_type", name, map_type(mapper, name))
    \/ \E name \in LookupNames :
          MapperCall("map_function", name, map_function(mapper, name))
    \/ \E name \in LookupNames :
          MapperCall("map_magic_method", name, map_magic_method(mapper, name))
    \/ \E code \in Texts :
          MapperCall("get_required_imports", code,
                     [cls |-> mapper, value |-> RequiredImports[code]])

SpecMapper == Init /\ [][NextMapper]_vars

(***************************************************************************)
(* The expression renderers called on their own: _get_value_code of both   *)
(* variants on an expression node.  The texts are given by _get_value_code *)
(* and Enhanced_get_value_code above; what follows is the exception a call *)
(* ends with, branch by branch as the code recurses.                       *)
(***************************************************************************)
\* An int constant of more than 4300 decimal digits, which ast.parse accepts
\* when it is written in hexadecimal (0xfff...f): str(value) raises ValueError
\* for it (the interpreter's limit on int to str conversion, Python 3.11).
\* The input texts of Spec hold no such constant.
HugeInt == Constant("int", "<int of more than 4300 digits>")

RECURSIVE _get_value_code_raised(_)
\* JavaStyleConverter._get_value_code, visit_JoinedStr and _get_call_code
_get_value_code_raised(node) ==
    LET each(nodes) == [i \in 1..Len(nodes) |-> _get_value_code_raised(nodes[i])]
        \* the exception of the first call that raises, "none" when none does
        FirstRaised(results) ==
            IF \E i \in 1..Len(results) : results[i] # "none"
            THEN results[CHOOSE i \in 1..Len(results) :
                           results[i] # "none" /\ \A j \in 1..(i - 1) : results[j] = "none"]
            ELSE "none"
    IN  CASE node.kind = "Name" -> "none"
          [] node.kind = "Constant" ->
               IF IsInstance(node.ty, "str") THEN "none"
               ELSE IF node = HugeInt THEN "ValueError" ELSE "none"    \* str(node.value)
          [] node.kind = "List" -> FirstRaised(each(node.elts))
          [] node.kind = "Dict" -> FirstRaised(each(node.keys) \o each(node.values))
          [] node.kind = "BinOp" -> FirstRaised(each(<<node.left, node.right>>))
          [] node.kind = "Compare" ->
               IF node.comparators # <<>>
               THEN FirstRaised(each(<<node.left, node.comparators[1]>>))
               ELSE _get_value_code_raised(node.left)
          [] node.kind = "Call" -> FirstRaised(each(<<node.func>> \o node.args))
          [] node.kind = "Attribute" -> _get_value_code_raised(node.value)
          [] node.kind = "JoinedStr" ->
               LET formatted == SelectSeq(node.values, LAMBDA v : v.kind = "FormattedValue")
               IN  FirstRaised([i \in 1..Len(formatted) |->
                                  _get_value_code_raised(formatted[i].value)])
          [] OTHER -> "none"                                           \* str(node)

RECURSIVE Enhanced_get_value_code_raised(_)
\* EnhancedConverter._get_value_code, visit_List, visit_Dict and visit_Call
Enhanced_get_value_code_raised(node) ==
    LET each(nodes) == [i \in 1..Len(nodes) |-> Enhanced_get_value_code_raised(nodes[i])]
        \* the exception of the first call that raises, "none" when none does
        FirstRaised(results) ==
            IF \E i \in 1..Len(results) : results[i] # "none"
            THEN results[CHOOSE i \in 1..Len(results) :
                           results[i] # "none" /\ \A j \in 1..(i - 1) : results[j] = "none"]
            ELSE "none"
        func_name == Enhanced_get_value_code(node.func)
    IN  CASE node.kind = "Name" -> "none"
          [] node.kind = "Constant" ->
               IF IsInstance(node.ty, "str") THEN "none"
               ELSE IF node = HugeInt THEN "ValueError" ELSE "none"    \* str(node.value)
          [] node.kind = "List" -> FirstRaised(each(node.elts))
          [] node.kind = "Dict" ->
               IF node.keys # <<>> /\ node.values # <<>>
               THEN LET kv == Zip(node.keys, node.values)
                    IN  FirstRaised([i \in 1..(2 * Len(kv)) |->
                                       Enhanced_get_value_code_raised(
                                           kv[(i + 1) \div 2][2 - (i % 2)])])
               ELSE "none"
          [] node.kind = "Call" ->
               LET func == Enhanced_get_value_code_raised(node.func)
                   used == CASE func # "none" -> <<>>
                             [] func_name = "print" -> node.args
                             [] func_name = "len" /\ node.args # <<>> -> <<node.args[1]>>
                             [] func_name = "range" /\ Len(node.args) \in {1, 2} -> node.args
                             [] OTHER -> node.args
               IN  FirstRaised(<<func>> \o each(used))
          [] node.kind = "BinOp" -> FirstRaised(each(<<node.left, node.right>>))
          [] OTHER -> "none"                                           \* str(node)

\* The expression nodes the renderers are called on: names and constants, and
\* every kind of expression built over them, the kinds without a rule included.
RenderNodes ==
    LET atoms == {Name("a"), Constant("int", "1"), Constant("str", "s"),
                  Constant("bool", "True"), Constant("NoneType", "None"), HugeInt}
        over(a) ==
            { a,
              ListNode(<<>>), ListNode(<<a>>), ListNode(<<Name("b"), a>>),
              TupleNode(<<a>>),
              [kind |-> "Set", elts |-> <<a>>],
              DictNode(<<>>, <<>>), DictNode(<<Constant("str", "k")>>, <<a>>),
              DictNode(<<a>>, <<Name("v")>>),
              \* {**a} and {**d, "k": a}: the key of an unpacked entry is None
              DictNode(<<NoneNode>>, <<a>>),
              DictNode(<<NoneNode, Constant("str", "k")>>, <<Name("d"), a>>),
              BinOp(a, "Add", Name("b")), BinOp(Name("b"), "Pow", a),
              BinOp(a, "MatMult", Name("b")),
              Compare(a, <<"Lt">>, <<Name("b")>>), Compare(Name("b"), <<"In">>, <<a>>),
              \* b < c < a: only the first comparison is read
              Compare(Name("b"), <<"Lt", "Lt">>, <<Name("c"), a>>),
              Call(Name("len"), <<>>), Call(Name("range"), <<>>),
              Call(Name("len"), <<a>>), Call(Name("len"), <<Name("b"), a>>),
              Call(Name("range"), <<a>>), Call(Name("range"), <<Name("b"), a>>),
              Call(Name("range"), <<Name("b"), Name("c"), a>>),
              Call(Name("print"), <<a>>), Call(Name("g"), <<a>>), Call(a, <<>>),
              Call(Attribute(a, "m"), <<>>),
              Attribute(a, "x"), Subscript(a, Name("i")),
              JoinedStr(<<Constant("str", "s"), FormattedValue(a)>>),
              [kind |-> "UnaryOp", op |-> "USub", operand |-> a],
              [kind |-> "BoolOp", op |-> "And", values |-> <<a, Name("b")>>],
              [kind |-> "IfExp", test |-> a, body |-> Name("b"), orelse |-> Name("c")],
              [kind |-> "Lambda", body |-> a],
              [kind |-> "Starred", value |-> a] }
              \cup {BinOp(Name("b"), op, a) :
                      op \in {"Add", "Sub", "Mult", "Div", "Mod", "Pow", "LShift", "RShift",
                              "BitOr", "BitXor", "BitAnd", "FloorDiv", "MatMult"}}
    IN  UNION {over(a) : a \in atoms}

\* converter._get_value_code(node) on a fresh converter of the variant
Render(variant, node) ==
    LET raised == IF variant = "basic" THEN _get_value_code_raised(node)
                  ELSE Enhanced_get_value_code_raised(node)
        text == IF variant = "basic" THEN _get_value_code(node)
                ELSE Enhanced_get_value_code(node)
    IN  /\ call' = [fn |-> "_get_value_code", code |-> "", variant |-> variant,
                    node |-> node]
        /\ ret' = [raised |-> raised, text |-> IF raised = "none" THEN text ELSE "",
                   lines |-> <<>>]
        /\ conv' = JavaStyleConverter_init
        /\ enh' = EnhancedConverter_init
        /\ UNCHANGED <<mapper, mcall, mret, mprev>>
        /\ UNCHANGED <<cache, clock, ccall, cret, cprev, puts, manager, reporter, pcall, pret, opt, ocall, oret, oprev, ocalls>>

NextRender ==
    \/ \E node \in RenderNodes : Render("basic", node)
    \/ \E node \in RenderNodes : Render("enhanced", node)

SpecRender == Init /\ [][NextRender]_vars

(***************************************************************************)
(* One converter object of each variant, made once and then asked to       *)
(* convert several texts: converter.convert(code) on the object held in    *)
(* conv (JavaStyleConverter) or enh (EnhancedConverter).                   *)
(***************************************************************************)
MaxLines == 2        \* convert is called on an object that holds at most MaxLines lines

\* conv.convert(code)
ConvertAgainBasic(code) ==
    LET r == JavaStyleConverter_convert(conv, code)
    IN  /\ Len(conv.lines) <= MaxLines
        /\ call' = [fn |-> "JavaStyleConverter.convert", code |-> code]
        /\ ret' = [raised |-> r.raised, text |-> r.text, lines |-> r.lines]
        /\ conv' = r.self
        /\ UNCHANGED <<enh, mapper, mcall, mret, mprev>>
        /\ UNCHANGED <<cache, clock, ccall, cret, cprev, puts, manager, reporter, pcall, pret, opt, ocall, oret, oprev, ocalls>>

\* enh.convert(code)
ConvertAgainEnhanced(code) ==
    LET r == EnhancedConverter_convert(enh, code)
    IN  /\ Len(enh.imports) + Len(enh.lines) <= MaxLines
        /\ call' = [fn |-> "EnhancedConverter.convert", code |-> code]
        /\ ret' = [raised |-> r.raised, text |-> r.text, lines |-> r.lines]
        /\ enh' = r.self
        /\ UNCHANGED <<conv, mapper, mcall, mret, mprev>>
        /\ UNCHANGED <<cache, clock, ccall, cret, cprev, puts, manager, reporter, pcall, pret, opt, ocall, oret, oprev, ocalls>>

NextAgain ==
    LET codes == {"x = 10\n", "x = [1, 2]\n", "def f(:\n", "",
                  "from typing import List\n", HelloWorldScenario.code}
    IN  \/ \E code \in codes : ConvertAgainBasic(code)
        \/ \E code \in codes : ConvertAgainEnhanced(code)

SpecAgain == Init /\ [][NextAgain]_vars

\* registering, replacing and unregistering plugins, and the passes in between
NextRegistry ==
    \/ \E name \in {"a", "b"}, transform \in {"append"} :
           RegisterPlugin([name |-> name, enabled |-> TRUE, transform |-> transform])
    \/ \E name \in {"a", "b", "code_style"} : UnregisterPlugin(name)
    \/ \E fn \in {"preprocess_code", "postprocess_code"} : ProcessCode(fn, "x = 1")

SpecRegistry == Init /\ [][NextRegistry]_vars

\* a source text holding a lone surrogate: the character U+D800 between the
\* quotes.  str.encode('utf-8') refuses it with UnicodeEncodeError, and so
\* does ast.parse, which encodes the text before it parses.
SurrogateText == "x = \"<U+D800>\"\n"

\* CodeOptimizer.optimize with every rule enabled.  A text is taken apart
\* into its parentheses and the pieces between them; only
\* _remove_redundant_parentheses changes a text, the other three rules
\* return it as it is.
CodeOptimizer_optimize(code) ==
    LET pieces == {<<>>,
                   <<"int x = 10;">>,
                   <<"if ", "(", "(", "x > 0", ")", ")", " {\n    g", "(", "x", ")", ";\n}">>,
                   <<SyntaxErrorMarker \o "invalid syntax ", "(", "<unknown>, line 1", ")",
                     "\ndef f", "(", ":\n">>}
        split == CHOOSE t \in pieces : JoinWith(t, "") = code
        paren(t) == t \in {"(", ")"}
        \* re.sub(r'\(\(([^()]+)\)\)', r'(\1)', code), and with * for + when
        \* empty is TRUE: the matches from left to right, none overlapping
        RECURSIVE sub(_, _)
        sub(t, empty) ==
            IF t = <<>> THEN <<>>
            ELSE IF /\ Len(t) >= 5
                    /\ t[1] = "(" /\ t[2] = "(" /\ ~paren(t[3]) /\ t[4] = ")" /\ t[5] = ")"
            THEN <<"(", t[3], ")">> \o sub(SubSeq(t, 6, Len(t)), empty)
            ELSE IF /\ empty /\ Len(t) >= 4
                    /\ t[1] = "(" /\ t[2] = "(" /\ t[3] = ")" /\ t[4] = ")"
            THEN <<"(", ")">> \o sub(SubSeq(t, 5, Len(t)), empty)
            ELSE <<t[1]>> \o sub(Tail(t), empty)
    IN  JoinWith(sub(sub(split, FALSE), TRUE), "")

\* OptimizedConverter.convert: [self, raised, text, converted]; now is what
\* time.time() reads in cache.get
OptimizedConverter_convert(self, code, use_enhanced, optimize, now) ==
    LET encodable == code # SurrogateText
        got == ConversionCache_get(self.cache, code, now)
        cached == self.cache # NoneNode /\ encodable /\ got.value \notin {"None", ""}
        looked == IF self.cache # NoneNode THEN got.self ELSE self.cache
        counted(field) == [self.monitor EXCEPT ![field] = @ + 1,
                                               !.total_conversions = @ + 1]
        stored(converted_code) ==
            [self |-> [cache |-> IF self.cache # NoneNode
                                 THEN ConversionCache_put(looked, code, converted_code)
                                 ELSE looked,
                       monitor |-> counted("cache_misses")],
             raised |-> "none", text |-> converted_code, converted |-> TRUE]
        \* the miss path, result being what the chosen converter answers
        miss(result) ==
            \* except Exception: end_conversion, raise
            IF result.raised # "none"
            THEN [self |-> [cache |-> looked, monitor |-> counted("cache_misses")],
                  raised |-> result.raised, text |-> "", converted |-> TRUE]
            ELSE stored(IF optimize THEN CodeOptimizer_optimize(result.text)
                        ELSE result.text)
    IN  \* self.cache.get(code) raises in code.encode: nothing is recorded
        IF self.cache # NoneNode /\ ~encodable
        THEN [self |-> self, raised |-> "UnicodeEncodeError", text |-> "",
              converted |-> FALSE]
        ELSE IF cached
        THEN [self |-> [cache |-> got.self, monitor |-> counted("cache_hits")],
              raised |-> "none", text |-> got.value, converted |-> FALSE]
        ELSE miss(IF ~encodable THEN [raised |-> "UnicodeEncodeError", text |-> ""]
                  ELSE IF use_enhanced THEN EnhancedCalls[code]
                  ELSE BasicCalls[code])

\* opt = OptimizedConverter(cache_enabled, max_cache_size)
OptNew(cache_enabled, max_cache_size) ==
    /\ opt' = OptimizedConverter_init(cache_enabled, max_cache_size)
    /\ ocall' = [fn |-> "__init__", code |-> "", use_enhanced |-> FALSE, optimize |-> FALSE]
    /\ oret' = [raised |-> "none", text |-> "", converted |-> FALSE]
    /\ oprev' = opt
    /\ ocalls' = 0
    /\ UNCHANGED <<call, ret, conv, enh, mapper, mcall, mret, mprev, cache, clock, ccall,
                   cret, cprev, puts, manager, reporter, pcall, pret>>

\* opt.convert(code, use_enhanced, optimize)
OptConvert(code, use_enhanced, optimize, now) ==
    \E r \in {OptimizedConverter_convert(opt, code, use_enhanced, optimize, now)} :
        /\ ocalls < MaxCalls
        /\ opt' = r.self
        /\ ocall' = [fn |-> "convert", code |-> code, use_enhanced |-> use_enhanced,
                     optimize |-> optimize]
        /\ oret' = [raised |-> r.raised, text |-> r.text, converted |-> r.converted]
        /\ oprev' = opt
        /\ ocalls' = ocalls + 1
        /\ clock' = IF r.self.monitor.cache_hits > opt.monitor.cache_hits THEN now ELSE clock
        /\ UNCHANGED <<call, ret, conv, enh, mapper, mcall, mret, mprev, cache, ccall,
                       cret, cprev, puts, manager, reporter, pcall, pret>>

\* opt.clear_cache()
OptClearCache ==
    /\ opt' = IF opt.cache # NoneNode THEN [opt EXCEPT !.cache.cache = <<>>] ELSE opt
    /\ ocall' = [fn |-> "clear_cache", code |-> "", use_enhanced |-> FALSE,
                 optimize |-> FALSE]
    /\ oret' = [raised |-> "none", text |-> "", converted |-> FALSE]
    /\ oprev' = opt
    /\ UNCHANGED <<ocalls, call, ret, conv, enh, mapper, mcall, mret, mprev, cache, clock,
                   ccall, cret, cprev, puts, manager, reporter, pcall, pret>>

NextOpt ==
    \/ \E cache_enabled \in BOOLEAN, max_cache_size \in 0..MaxSize :
           OptNew(cache_enabled, max_cache_size)
    \/ \E code \in {"x = 10\n", "def f(:\n", "if x > 0:\n    g(x)\n", SurrogateText},
          use_enhanced \in BOOLEAN, optimize \in BOOLEAN,
          now \in {t \in {clock, clock + 1} : t <= MaxTime} :
           OptConvert(code, use_enhanced, optimize, now)
    \/ OptClearCache

SpecOpt == Init /\ [][NextOpt]_vars

(***************************************************************************)
(* Claims on convert_python_to_java_style and convert_with_mapping.        *)
(***************************************************************************)
IsBasic == call.fn = "convert_python_to_java_style"
IsEnhanced == call.fn = "convert_with_mapping"
parsed == ast_parse(call.code)
tree == parsed.tree

\* the texts of the lines the returned text was joined from
OutTexts == {ret.lines[i].txt : i \in 1..Len(ret.lines)}

C2_ParseFailureEnhanced ==
    (IsEnhanced /\ ~parsed.ok) =>
        /\ ret.raised = "none"
        /\ ret.text = SyntaxErrorMarker \o parsed.msg \o "\n" \o call.code

C2_FailingInput == IsEnhanced /\ call.code = "def f(:\n" /\ ret.raised = "SyntaxError"

\* the names of the parameters of a function
ArgNames(f) == [i \in 1..Len(f.args) |-> f.args[i].arg]

\* the program is one class whose only member is the method __init__(self, name)
IsCtorOnlyClass ==
    /\ parsed.ok
    /\ Len(tree.body) = 1
    /\ tree.body[1].kind = "ClassDef"
    /\ Len(tree.body[1].body) = 1
    /\ tree.body[1].body[1].kind = "FunctionDef"
    /\ tree.body[1].body[1].name = "__init__"
    /\ ArgNames(tree.body[1].body[1]) = <<"self", "name">>

\* a constructor signature named C with the parameter String name, whatever
\* stands between "public" and the name
CtorLines(C) == {"public " \o rt \o C \o "(String name) {" : rt \in {"", "Object ", "void "}}

\* C3: basic variant: for a class whose only method is __init__(self, name) the
\* constructor line is named after the class and declares the parameter as
\* String name.
C3_CtorStringName ==
    (IsBasic /\ IsCtorOnlyClass) =>
        /\ Len(ret.lines) >= 2
        /\ ret.lines[2].ind = 1
        /\ ret.lines[2].txt \in CtorLines(tree.body[1].name)

\* The program is one statement, at top level or alone in the body of a
\* function: the statement, its depth, and the lines emitted for it.
SoleStatement ==
    /\ parsed.ok
    /\ Len(tree.body) = 1
    /\ tree.body[1].kind = "FunctionDef" => Len(tree.body[1].body) = 1

InFunction == tree.body[1].kind = "FunctionDef"
stmt == IF InFunction THEN tree.body[1].body[1] ELSE tree.body[1]
depth == IF InFunction THEN 1 ELSE 0
StmtLines == IF InFunction THEN SubSeq(ret.lines, 2, Len(ret.lines) - 1) ELSE ret.lines

AllNames(nodes) == \A i \in 1..Len(nodes) : nodes[i].kind = "Name"

\* the type-inference table of spec section 4.3 for literal right-hand sides
DeclaredType(ty) ==
    CASE ty = "int" -> "int"
      [] ty = "float" -> "double"
      [] ty = "str" -> "String"
      [] ty = "bool" -> "boolean"

IsLiteralAssign ==
    /\ SoleStatement
    /\ stmt.kind = "Assign"
    /\ Len(stmt.targets) = 1
    /\ stmt.targets[1].kind = "Name"
    /\ stmt.value.kind = "Constant"
    /\ stmt.value.ty \in {"int", "float", "str", "bool"}

\* C4: basic variant: v = <literal> with an integer, float, string or boolean
\* constant declares v as int, double, String, boolean respectively.
C4_LiteralDeclaredType ==
    (IsBasic /\ IsLiteralAssign) =>
        /\ Len(StmtLines) = 1
        /\ StmtLines[1].txt = DeclaredType(stmt.value.ty) \o " " \o stmt.targets[1].id
                                \o " = " \o _get_value_code(stmt.value) \o ";"

IsChainedAssign ==
    /\ SoleStatement
    /\ stmt.kind = "Assign"
    /\ Len(stmt.targets) > 1
    /\ AllNames(stmt.targets)

DeclTypes == {"int", "double", "String", "boolean", "Object", "List<Object>",
              "Map<Object, Object>"}

\* C5: basic variant: a chained assignment with N > 1 plain-name targets emits
\* the declaration line "<Type> t1, .., tN;" without initialiser and then N
\* lines "<target> = <expr>;", one per target in source order, all with the
\* same rendered expression; N + 1 lines in all, at the statement's depth.
C5_ChainedAssign ==
    (IsBasic /\ IsChainedAssign) =>
        LET N == Len(stmt.targets)
            ids == [i \in 1..N |-> stmt.targets[i].id]
            expr == _get_value_code(stmt.value)
        IN  /\ Len(StmtLines) = N + 1
            /\ \E T \in DeclTypes : StmtLines[1].txt = T \o " " \o JoinWith(ids, ", ") \o ";"
            /\ \A i \in 1..N : StmtLines[i + 1].txt = ids[i] \o " = " \o expr \o ";"
            /\ \A i \in 1..(N + 1) : StmtLines[i].ind = depth

C5_Witness ==
    /\ IsBasic /\ IsChainedAssign
    /\ Len(stmt.targets) = MaxTargets
    /\ depth = 1
    /\ stmt.value = Exprs.compute.ast
    /\ Len(StmtLines) = MaxTargets + 1
    /\ StmtLines[MaxTargets + 1].txt \in {t \o " = compute();" : t \in TargetNames}

IsNameFor ==
    /\ SoleStatement
    /\ stmt.kind = "For"
    /\ stmt.target.kind = "Name"

ForHeader == "for (" \o stmt.target.id \o " : " \o _get_value_code(stmt.iter) \o ") {"

\* the lines between the header and the closing brace
BodyLines == SubSeq(StmtLines, 2, Len(StmtLines) - 1)

ForFrame ==
    /\ Len(StmtLines) >= 2
    /\ StmtLines[1] = [ind |-> depth, txt |-> ForHeader]
    /\ StmtLines[Len(StmtLines)] = [ind |-> depth, txt |-> "}"]

\* C6 as stated: basic variant: a loop "for t in it:" emits the header
\* "for (t : it) {" at the current indent, every line of the loop body exactly
\* one indent level deeper, and the closing "}" at the header's indent.
C6_ForBodyExactlyOneDeeper ==
    (IsBasic /\ IsNameFor) =>
        /\ ForFrame
        /\ \A i \in 1..Len(BodyLines) : BodyLines[i].ind = depth + 1

\* C6 as amended: the header and the closing "}" are at the current indent; the
\* body is rendered one level deeper: every line of it is at least one level
\* deeper than the header, its first and last line exactly one level deeper,
\* and a line lies deeper than the line before it by at most one level (the
\* lines inside a block nested in the body).
C6_ForBodyOneDeeper ==
    (IsBasic /\ IsNameFor) =>
        /\ ForFrame
        /\ \A i \in 1..Len(BodyLines) : BodyLines[i].ind >= depth + 1
        /\ BodyLines # <<>> =>
              /\ BodyLines[1].ind = depth + 1
              /\ BodyLines[Len(BodyLines)].ind = depth + 1
        /\ \A i \in 2..Len(BodyLines) : BodyLines[i].ind <= BodyLines[i - 1].ind + 1

\* a loop in a function whose body holds a nested loop with a nested if
C6_Witness ==
    /\ IsBasic /\ IsNameFor /\ depth = 1
    /\ ForFrame
    /\ \E i \in 1..Len(BodyLines) : BodyLines[i].ind = depth + 3

PrintHelloLines ==
    {"System.out.println(\"Hello, \" + " \o obj \o ".name + \"!\");" : obj \in {"this", "self"}}

\* C7: basic variant, HelloWorld scenario: the output has the line
\* "public class HelloWorld {", a constructor line named after the class, and
\* for print(f"Hello, {self.name}!") a System.out.println call whose argument
\* joins "Hello, ", the name attribute and "!" with +.
C7_HelloWorld ==
    (IsBasic /\ call.code \in {HelloWorldProgram.code, HelloWorldScenario.code}) =>
        /\ "public class HelloWorld {" \in OutTexts
        /\ \E params \in {"String name", "Object name"}, rt \in {"", "Object ", "void "} :
              "public " \o rt \o "HelloWorld(" \o params \o ") {" \in OutTexts
        /\ OutTexts \cap PrintHelloLines # {}

HasTypingListImport ==
    \E i \in 1..Len(tree.body) :
        /\ tree.body[i].kind = "ImportFrom"
        /\ tree.body[i].module = "typing"
        /\ \E j \in 1..Len(tree.body[i].names) : tree.body[i].names[j] = "List"

HasListLiteral ==
    \E i \in 1..Len(ast_walk(tree)) : ast_walk(tree)[i].kind = "List"

\* C10: mapping-augmented variant: a program with "from typing import List" and
\* no list literal gets both "import java.util.List" and
\* "import java.util.ArrayList" in its output.
C10_TypingListImports ==
    (IsEnhanced /\ parsed.ok /\ HasTypingListImport /\ ~HasListLiteral) =>
        /\ "import java.util.List;" \in OutTexts
        /\ "import java.util.ArrayList;" \in OutTexts

(***************************************************************************)
(* Claims on the SyntaxMapper class methods (under SpecMapper).            *)
(***************************************************************************)
IsLookup == mcall.fn \in {"map_type", "map_function", "map_magic_method"}

\* C8: map_type, map_function and map_magic_method return for every name, give
\* the same value when called again with the same name, and change no table; a
\* name that is no key gives Object from map_type and itself from map_function
\* and map_magic_method; tuple and list both give List.
C8_LookupsTotalPure ==
    /\ mapper = SyntaxMapper_class
    /\ (IsLookup /\ mprev.same) => mret.value = mprev.value
    /\ mcall.fn = "map_type" =>
          /\ mcall.arg \in {"tuple", "list"} => mret.value = "List"
          /\ mcall.arg \notin DOMAIN TYPE_MAPPING => mret.value = "Object"
    /\ (mcall.fn = "map_function" /\ mcall.arg \notin DOMAIN FUNCTION_MAPPING) =>
          mret.value = mcall.arg
    /\ (mcall.fn = "map_magic_method" /\ mcall.arg \notin DOMAIN MAGIC_METHODS) =>
          mret.value = mcall.arg

\* map_type of a name that is no key, called for the second time
C8_Witness ==
    /\ mcall = [fn |-> "map_type", arg |-> "compute"]
    /\ mprev.same
    /\ mret.value = "Object"

Range(seq) == {seq[i] : i \in 1..Len(seq)}

\* the imports that belong to each scanned type name
C9_Group(type_name) ==
    CASE type_name = Word.List -> {JavaUtilImport(Word.List), JavaUtilImport(Word.ArrayList)}
      [] type_name = Word.Map -> {JavaUtilImport(Word.Map), JavaUtilImport(Word.HashMap)}
      [] type_name = Word.Set -> {JavaUtilImport(Word.Set), JavaUtilImport(Word.HashSet)}
      [] type_name = Word.Arrays -> {JavaUtilImport(Word.Arrays)}
      [] type_name = Word.Collections -> {JavaUtilImport(Word.Collections)}

\* C9: get_required_imports(text) returns a list in strictly ascending order
\* (sorted, no duplicate), the same on a second call with the same text; for
\* each of List, Map, Set occurring in the text it holds the interface import
\* and the default implementation import; and it holds no import of a scanned
\* name that does not occur in the text.
C9_RequiredImports ==
    mcall.fn = "get_required_imports" =>
        /\ \A i \in 1..(Len(mret.value) - 1) : StrLess(mret.value[i], mret.value[i + 1])
        /\ mprev.same => mret.value = mprev.value
        /\ \A n \in {Word.List, Word.Map, Word.Set} :
              Contains(mcall.arg, n) => C9_Group(n) \subseteq Range(mret.value)
        /\ \A n \in TypeNames :
              ~Contains(mcall.arg, n) => C9_Group(n) \cap Range(mret.value) = {}
        /\ Range(mret.value) \subseteq UNION {C9_Group(n) : n \in TypeNames}

\* "Hash" + "Map": the text holds Map and no List; second call
C9_Witness ==
    /\ mcall.fn = "get_required_imports"
    /\ mcall.arg = Word.HashMap
    /\ mprev.same
    /\ mret.value = <<JavaUtilImport(Word.HashMap), JavaUtilImport(Word.Map)>>

(***************************************************************************)
(* Claims on the rendering of statements and expressions.                  *)
(***************************************************************************)
\* the assignments of a literal of the given kind, with elements, in the body
\* of a top-level function
LiteralAssigns(kind) ==
    {st \in UNION {Range(tree.body[i].body) :
                     i \in {j \in 1..Len(tree.body) : tree.body[j].kind = "FunctionDef"}} :
        /\ st.kind = "Assign"
        /\ Len(st.targets) = 1
        /\ st.targets[1].kind = "Name"
        /\ st.value.kind = kind
        /\ Children(st.value) # <<>>}

\* the lines that render v = <literal> with the literal's call: with or without
\* a declared type, with or without the semicolon
RenderedAssign(st) ==
    {pre \o st.targets[1].id \o " = " \o Enhanced_get_value_code(st.value) \o post :
        pre \in {""} \cup {T \o " " : T \in DeclTypes \cup {"List", "Map", "var"}},
        post \in {"", ";"}}

\* C11: mapping-augmented variant: for a function whose body assigns a
\* non-empty list literal and a non-empty dict literal, the returned text holds
\* the rendered statements: a line with the Arrays.asList(...) call for the
\* list and a line with the Map.of(...) call for the dict.
C11_LiteralsRendered ==
    (IsEnhanced /\ parsed.ok /\ LiteralAssigns("List") # {} /\ LiteralAssigns("Dict") # {}) =>
        \A st \in LiteralAssigns("List") \cup LiteralAssigns("Dict") :
            OutTexts \cap RenderedAssign(st) # {}

\* the test program of test_list_and_dict_literals: only import lines come out
C11_FailingInput ==
    /\ IsEnhanced /\ parsed.ok
    /\ LiteralAssigns("List") # {} /\ LiteralAssigns("Dict") # {}
    /\ ret.raised = "none"
    /\ OutTexts = {"import java.util.List;", "import java.util.ArrayList;",
                   "import java.util.Map;", "import java.util.HashMap;", ""}

IsCompareIf ==
    /\ SoleStatement
    /\ stmt.kind = "If"
    /\ stmt.test.kind = "Compare"
    /\ Len(stmt.test.comparators) = 1

\* "if (L op R) {": the comparison directly inside the parentheses of the if
IfHeader(test) ==
    "if (" \o _get_value_code(test.left) \o " " \o _get_cmpop(test.ops[1]) \o " "
           \o _get_value_code(test.comparators[1]) \o ") {"

\* the positions, in the lines of the statement, of the lines at its own depth
OwnDepth == {i \in 1..Len(StmtLines) : StmtLines[i].ind = depth}

\* C12: basic variant: if L op R: .. else: .. emits the header "if (L op R) {"
\* with the comparison directly inside the one pair of parentheses, the body,
\* a closing "}", immediately followed by "else {", the else-body and "}"; an
\* elif is a nested if that opens the else block.
C12_IfElse ==
    (IsBasic /\ IsCompareIf) =>
        LET n == Len(StmtLines)
        IN  /\ n >= 2
            /\ StmtLines[1] = [ind |-> depth, txt |-> IfHeader(stmt.test)]
            /\ StmtLines[n] = [ind |-> depth, txt |-> "}"]
            /\ \A i \in 1..n : StmtLines[i].ind >= depth
            /\ stmt.orelse = <<>> => OwnDepth = {1, n}
            /\ stmt.orelse # <<>> =>
                  \E k \in 2..(n - 2) :
                      /\ OwnDepth = {1, k, k + 1, n}
                      /\ StmtLines[k].txt = "}"
                      /\ StmtLines[k + 1].txt = "else {"
                      /\ stmt.orelse[1].kind = "If" => StmtLines[k + 2].ind = depth + 1

\* what the code emits: the parentheses of the rendered comparison inside the
\* parentheses of the if
C12_FailingInput ==
    /\ IsBasic /\ IsCompareIf /\ depth = 1
    /\ stmt.orelse # <<>>
    /\ StmtLines[1].txt = "if ((x > 0)) {"

\* the functions and methods of the program, __init__ aside
Functions ==
    {f \in Range(ast_walk(tree)) : f.kind = "FunctionDef" /\ f.name # "__init__"}

\* the body of f holds a return with a value
ReturnsValue(f) ==
    \E n \in Range(ast_walk(Module(f.body))) : n.kind = "Return" /\ n.value.kind # "None"

\* the signature line of f with the return type rt
Signature(f, rt) ==
    LET kept == SelectSeq(f.args, LAMBDA a : a.arg # "self")
        params == [i \in 1..Len(kept) |-> ParamType(f.name, kept[i].arg) \o " " \o kept[i].arg]
    IN  "public " \o rt \o " " \o f.name \o "(" \o JoinWith(params, ", ") \o ") {"

\* C13: basic variant: a function without return annotation that returns no
\* value gets the signature "public void name(..)"; one that returns a value
\* gets "public Object name(..)" and, for return a + b, the line
\* "return (a + b);".
C13_VoidOrObject ==
    (IsBasic /\ parsed.ok) =>
        \A f \in Functions :
            f.returns.kind = "None" =>
                /\ ~ReturnsValue(f) => Signature(f, "void") \in OutTexts
                /\ ReturnsValue(f) =>
                      /\ Signature(f, "Object") \in OutTexts
                      /\ \A n \in Range(f.body) :
                            (n.kind = "Return" /\ n.value.kind # "None") =>
                                ("return " \o _get_value_code(n.value) \o ";") \in OutTexts

\* the method greet of the HelloWorld class comes out with the type Object
C13_FailingInput ==
    /\ IsBasic /\ call.code = HelloWorldProgram.code
    /\ "public Object greet() {" \in OutTexts
    /\ "public void greet() {" \notin OutTexts

\* C14: basic variant: a return annotation that is a plain name T gives the
\* return type SyntaxMapper.map_type(T), for every name T (tuple, set and
\* unknown names included); without annotation the return type is Object.
C14_ReturnTypeMapped ==
    (IsBasic /\ parsed.ok) =>
        \A f \in Functions :
            /\ f.returns.kind = "Name" =>
                  Signature(f, map_type(SyntaxMapper_class, f.returns.id).value) \in OutTexts
            /\ f.returns.kind = "None" => Signature(f, "Object") \in OutTexts

\* -> tuple comes out as Object, where map_type gives List
C14_FailingInput ==
    /\ IsBasic /\ call.code = "def f() -> tuple:\n    return x\n"
    /\ map_type(SyntaxMapper_class, "tuple").value = "List"
    /\ OutTexts = {"public Object f() {", "return x;", "}"}

\* the function definitions of the program with the name each is emitted
\* under: a class's method __init__ under the class name, another __init__
\* under "Constructor"
Definitions ==
    LET RECURSIVE defs(_, _)
        \* enclosing: the name of the innermost class around the statements
        defs(nodes, enclosing) ==
            IF nodes = <<>> THEN {}
            ELSE LET n == nodes[1]
                     own == CASE n.kind = "ClassDef" -> defs(n.body, n.name)
                              [] n.kind = "FunctionDef" ->
                                   {<<n, IF n.name = "__init__" THEN enclosing ELSE n.name>>}
                                     \cup defs(n.body, enclosing)
                              [] n.kind = "If" -> defs(n.body \o n.orelse, enclosing)
                              [] n.kind \in {"For", "While", "With"} -> defs(n.body, enclosing)
                              [] OTHER -> {}
                 IN  own \cup defs(Tail(nodes), enclosing)
    IN  defs(tree.body, "Constructor")

RECURSIVE ParamLists(_)
\* the parameter lists "T1 n1, .., Tk nk" for the names n, whatever the types
ParamLists(n) ==
    IF n = <<>> THEN {""}
    ELSE {T \o " " \o n[1] \o (IF rest = "" THEN "" ELSE ", " \o rest) :
            T \in {"Object", "int", "String"}, rest \in ParamLists(Tail(n))}

\* the signature lines for an emitted name and a list of parameter names
SignatureLines(name, n) ==
    {"public " \o rt \o " " \o name \o "(" \o pl \o ") {" :
        rt \in {"Object", "void"}, pl \in ParamLists(n)}

IsRender == call.fn = "_get_value_code"

\* C16: the expression renderer of both variants returns a text and never
\* raises, for every expression node of every kind: kinds without a rule,
\* comparisons, dict literals with unpacked entries, len() and range() without
\* arguments.  (Under SpecRender.)
C16_RendererTotal ==
    IsRender => ret.raised = "none"

\* an int constant too long for str(), alone and inside a list
C16_FailingInput ==
    /\ IsRender
    /\ call.node \in {HugeInt, ListNode(<<Name("b"), HugeInt>>)}
    /\ ret.raised = "ValueError"

\* C16, the kinds the claim names: every node without such an int constant is
\* rendered to a text without raising.
C16_NamedKindsTotal ==
    (IsRender /\ HugeInt \notin Range(ast_walk(call.node))) =>
        /\ ret.raised = "none"
        /\ call.node.kind \in {"UnaryOp", "BoolOp", "IfExp", "Lambda", "Starred", "Set"} =>
              ret.text = ObjectRepr(call.node.kind)
        /\ call.node = Call(Name("len"), <<>>) => ret.text = "len()"
        /\ call.node = DictNode(<<NoneNode>>, <<Name("a")>>) => ret.text = "Map.of(None, a)"

(***************************************************************************)
(* Claims on ConversionCache (under SpecCache).                            *)
(***************************************************************************)
IsPut == ccall.fn = "put"
IsGet == ccall.fn = "get"
key == _get_code_hash(ccall.code)

\* the keys the call removed from the dict
RemovedKeys ==
    {e.code_hash : e \in Range(cprev)} \ {e.code_hash : e \in Range(cache.cache)}

\* the entries of the dict before the call with the smallest
\* (last_accessed, -access_count)
Smallest ==
    {e \in Range(cprev) :
        \A o \in Range(cprev) :
            \/ e.last_accessed < o.last_accessed
            \/ e.last_accessed = o.last_accessed /\ e.access_count >= o.access_count}

\* get, put of a key in the dict, put below the capacity
KeepsAll ==
    \/ IsGet
    \/ IsPut /\ (InCache(cprev, key) \/ Len(cprev) < cache.max_size)

LastPut(same(_)) ==
    IF \E i \in 1..Len(puts) : same(puts[i].code)
    THEN puts[CHOOSE i \in 1..Len(puts) :
                 same(puts[i].code) /\ \A j \in (i + 1)..Len(puts) : ~same(puts[j].code)].text
    ELSE "None"

\* what a get does to the dict: a hit adds 1 to the access_count of the entry
\* of the key and changes no other entry, a miss changes nothing
HitOrMiss ==
    IF InCache(cprev, key)
    THEN /\ Len(cache.cache) = Len(cprev)
         /\ \A i \in 1..Len(cprev) :
               IF cprev[i].code_hash = key
               THEN /\ cache.cache[i].access_count = cprev[i].access_count + 1
                    /\ cache.cache[i].converted_code = cprev[i].converted_code
                    /\ cache.cache[i].code_hash = key
               ELSE cache.cache[i] = cprev[i]
    ELSE cache.cache = cprev

\* C18: get(code) returns the text of the most recent put(code, text) whose
\* entry has been neither evicted nor cleared since, and None otherwise; a hit
\* adds exactly 1 to the access_count of that entry and changes no other
\* entry, a miss changes nothing.
C18_GetReturnsLastPut ==
    IsGet => /\ cret.value = LastPut(LAMBDA c : c = ccall.code)
             /\ HitOrMiss

\* C18 as the code has it: the entry is found by the md5 digest of the code,
\* so get(code) returns the text of the most recent put of any code with the
\* same digest, if that entry has been neither evicted nor cleared since, and
\* None otherwise; a hit adds exactly 1 to the access_count of that entry (and
\* sets its last_accessed to the time of the call) and changes no other entry,
\* a miss changes nothing.
C18_GetReturnsLastPutOfHash ==
    IsGet => /\ cret.value = LastPut(LAMBDA c : _get_code_hash(c) = key)
             /\ HitOrMiss
             /\ \A i \in 1..Len(cprev) :
                   cprev[i].code_hash = key => cache.cache[i].last_accessed = clock

\* a hit on the code put twice, with the text of the second put, the entry
\* read for the second time while another entry stays as it was
C18_Witness ==
    /\ IsGet /\ ccall.code = "x = 1"
    /\ cret.value = "var x = 1;"
    /\ Len(cache.cache) = 2
    /\ \E i \in 1..2 : cache.cache[i].code_hash = key /\ cache.cache[i].access_count = 2

(***************************************************************************)
(* Claims on PluginManager (under SpecPlugins).                            *)
(***************************************************************************)
IsProcess == pcall.fn \in {"preprocess_code", "postprocess_code"}

\* the enabled conversion plugins, in the order of their registration
EnabledPlugins == SelectSeq(manager.conversion_plugins, LAMBDA p : p.enabled)

\* the text after each enabled plugin whose transform returns has been applied
\* to the text of the one before it, the plugins that raise being skipped
RECURSIVE Applied(_, _)
Applied(plugins, text) ==
    IF plugins = <<>> THEN text
    ELSE Applied(Tail(plugins),
                 IF Head(plugins).transform = "append"
                 THEN text \o " #" \o pcall.fn \o ":" \o Head(plugins).name
                 ELSE text)

\* the names of the enabled plugins whose transform raises, in order
Failing ==
    LET raising == SelectSeq(EnabledPlugins,
                             LAMBDA p : p.transform \notin {"identity", "append"})
    IN  [i \in 1..Len(raising) |-> raising[i].name]

Reported == [i \in 1..Len(pret.reported) |-> pret.reported[i].plugin]

\* C19: preprocess_code and postprocess_code never raise: each enabled
\* conversion plugin is applied in registration order to the text of the one
\* before it; a plugin whose transform raises is skipped, its failure is
\* recorded in the error reporter, and the remaining plugins still run.
C19_FaultIsolated ==
    IsProcess => /\ pret.raised = "none"
                 /\ pret.value = Applied(EnabledPlugins, pcall.arg)
                 /\ Reported = Failing

\* plugin a calls sys.exit(), or raises an exception whose __str__ raises,
\* and plugin b registered after it never runs
C19_FailingInput ==
    /\ IsProcess
    /\ pret.raised \in {"SystemExit", "RuntimeError"}
    /\ Len(EnabledPlugins) = 7
    /\ EnabledPlugins[6].name = "a" /\ EnabledPlugins[7].name = "b"
    /\ EnabledPlugins[7].transform = "append"

\* C19 for transforms that return or raise an Exception that str() accepts:
\* the pass returns the text of the last plugin, with one error recorded per
\* failing plugin.
C19_OrdinaryFailuresIsolated ==
    (IsProcess /\ \A i \in 1..Len(EnabledPlugins) :
                      EnabledPlugins[i].transform \in {"identity", "append", "ValueError"}) =>
        /\ pret.raised = "none"
        /\ pret.value = Applied(EnabledPlugins, pcall.arg)
        /\ Reported = Failing

(***************************************************************************)
(* Claims on the import lines of convert_with_mapping (under Spec).        *)
(***************************************************************************)
\* the auxiliary import lines at the head of the returned text
ImportHead == [i \in 1..Len(enh.imports) |-> ret.lines[i].txt]

\* the import lines the converter can place there, in ascending order
ImportOrder ==
    <<"import java.util.ArrayList;", "import java.util.HashMap;",
      "import java.util.List;", "import java.util.Map;">>

ImportRank(line) == CHOOSE r \in 1..Len(ImportOrder) : ImportOrder[r] = line

\* C20: mapping-augmented variant: the import lines at the head of the output
\* hold no line twice and are in sorted order, for every input.
C20_ImportsSortedUnique ==
    (IsEnhanced /\ ret.raised = "none") =>
        \A i, j \in 1..Len(ImportHead) :
            i < j => ImportRank(ImportHead[i]) < ImportRank(ImportHead[j])

\* a program with two list literals, or a list literal and
\* `from typing import List`: the List line comes out twice, and before the
\* ArrayList line
C20_FailingInput ==
    /\ IsEnhanced /\ ret.raised = "none"
    /\ Len(ImportHead) >= 3
    /\ ImportHead[1] = "import java.util.List;"
    /\ ImportHead[2] = "import java.util.ArrayList;"
    /\ ImportHead[3] = "import java.util.List;"
    /\ ret.lines[Len(ImportHead) + 1].txt = ""

(***************************************************************************)
(* Claims on the render context of a converter object (under SpecAgain).   *)
(***************************************************************************)
\* what a converter made for the call alone returns for the text
Fresh ==
    IF call.fn = "JavaStyleConverter.convert"
    THEN convert_python_to_java_style(call.code)
    ELSE convert_with_mapping(call.code)

IsAgain == call.fn \in {"JavaStyleConverter.convert", "EnhancedConverter.convert"}

\* C21: the render context belongs to one conversion call: for any sequence of
\* convert calls, several calls on the same converter object included, the
\* text a call returns depends only on its input and holds no line made for an
\* earlier call.
C21_ContextPerCall ==
    IsAgain => /\ ret.raised = Fresh.raised
               /\ ret.text = Fresh.text

\* the same one-line program converted twice by one JavaStyleConverter: the
\* second text holds the line twice
C21_FailingInput ==
    /\ call.fn = "JavaStyleConverter.convert"
    /\ Len(Fresh.lines) = 1
    /\ ret.lines = Fresh.lines \o Fresh.lines

(***************************************************************************)
(* Claims on class headers and constructor names (basic variant).          *)
(***************************************************************************)
\* the class header for a class: only the bases written as plain names
ClassHeader(c) ==
    LET plain == SelectSeq(c.bases, LAMBDA b : b.kind = "Name")
    IN  "public class " \o c.name
          \o (IF plain = <<>> THEN ""
              ELSE " extends " \o JoinWith([i \in 1..Len(plain) |-> plain[i].id], ", "))
          \o " {"

\* the signature lines of a method __init__ emitted under the name n
CtorSignatures(f, n) ==
    SignatureLines(n, SelectSeq(ArgNames(f), LAMBDA a : a # "self"))

RECURSIVE HeadersOf(_, _)
\* the class headers and constructor signatures of the statements, in source
\* order, each as the set of lines that stand for it; enclosing is the list
\* of the names of the classes around the statements, innermost last
HeadersOf(nodes, enclosing) ==
    IF nodes = <<>> THEN <<>>
    ELSE LET n == nodes[1]
             own == CASE n.kind = "ClassDef" ->
                           <<{ClassHeader(n)}>> \o HeadersOf(n.body, Append(enclosing, n.name))
                      [] n.kind = "FunctionDef" ->
                           (IF n.name = "__init__"
                            THEN <<CtorSignatures(n, IF enclosing = <<>> THEN "Constructor"
                                                     ELSE enclosing[Len(enclosing)])>>
                            ELSE <<>>) \o HeadersOf(n.body, enclosing)
                      [] n.kind = "If" -> HeadersOf(n.body \o n.orelse, enclosing)
                      [] n.kind \in {"For", "While", "With"} -> HeadersOf(n.body, enclosing)
                      [] OTHER -> <<>>
         IN  own \o HeadersOf(Tail(nodes), enclosing)

\* every line that is a class header or a constructor signature under some name
HeaderLike ==
    LET nodes == Range(ast_walk(tree))
        classes == {c \in nodes : c.kind = "ClassDef"}
        ctors == {f \in nodes : f.kind = "FunctionDef" /\ f.name = "__init__"}
        written(c) == [i \in 1..Len(c.bases) |-> _get_value_code(c.bases[i])]
    IN  UNION {{ClassHeader(c), "public class " \o c.name \o " {",
                "public class " \o c.name \o " extends " \o JoinWith(written(c), ", ") \o " {"} :
               c \in classes}
          \cup UNION {CtorSignatures(f, n) :
                        f \in ctors,
                        n \in {c.name : c \in classes} \cup {"Constructor", "__init__"}}

\* the lines of the returned text that are class headers or constructor signatures
HeaderLines == SelectSeq(ret.lines, LAMBDA l : l.txt \in HeaderLike)

\* C22: basic variant: a class's name is on top of class_stack while its body
\* is rendered: each __init__ is emitted under the name of the innermost class
\* around it (the outer class's name after a nested class has ended),
\* under Constructor outside any class, and each class header reads
\* "public class <Name>" followed by " extends <bases>" with only the bases
\* written as plain names.
C22_ClassNamesScoped ==
    (IsBasic /\ parsed.ok) =>
        LET expected == HeadersOf(tree.body, <<>>)
        IN  /\ Len(HeaderLines) = Len(expected)
            /\ \A i \in 1..Len(expected) : HeaderLines[i].txt \in expected[i]

\* an outer class's __init__ after a nested class with its own __init__, the
\* outer class with two plain bases
C22_Witness ==
    /\ IsBasic /\ parsed.ok
    /\ tree.body # <<>>
    /\ tree.body[1].kind = "ClassDef"
    /\ Len(tree.body[1].body) = 2
    /\ tree.body[1].body[1].kind = "ClassDef"
    /\ tree.body[1].body[2].kind = "FunctionDef"
    /\ tree.body[1].body[2].name = "__init__"
    /\ [i \in 1..Len(HeaderLines) |-> HeaderLines[i].txt]
         = <<"public class Outer extends Base, Other {", "public class Inner {",
             "public Object Inner() {", "public Object Outer(int x) {">>

(***************************************************************************)
(* Claims on binary operations (under SpecRender).                         *)
(***************************************************************************)
\* the fixed operator table
OperatorTable ==
    [Add |-> "+", Sub |-> "-", Mult |-> "*", Div |-> "/", Mod |-> "%", Pow |-> "**",
     LShift |-> "<<", RShift |-> ">>", BitOr |-> "|", BitXor |-> "^", BitAnd |-> "&",
     FloorDiv |-> "//"]

\* a binary operation over two names was rendered
IsNamesBinOp ==
    /\ IsRender
    /\ call.node.kind = "BinOp"
    /\ call.node.left.kind = "Name"
    /\ call.node.right.kind = "Name"

\* C23: in both variants a binary operation with any of the twelve operators
\* + - * / % ** << >> | ^ & // renders as (left OP right), OP the operator's
\* symbol in the fixed table; only an operator outside the table takes the
\* fallback text.
C23_TwelveOperators ==
    IsNamesBinOp =>
        LET n == call.node
        IN  /\ ret.raised = "none"
            /\ n.op \in DOMAIN OperatorTable =>
                 ret.text = "(" \o n.left.id \o " " \o OperatorTable[n.op] \o " " \o n.right.id \o ")"
            /\ n.op \notin DOMAIN OperatorTable =>
                 ret.text = "(" \o n.left.id \o " " \o ObjectRepr(n.op) \o " " \o n.right.id \o ")"

\* b ** a in the basic variant: the operator is written as the object's repr
C23_FailingInput ==
    /\ IsNamesBinOp
    /\ call.variant = "basic"
    /\ call.node.op = "Pow"
    /\ ret.text = "(b <ast.Pow object> a)"

(***************************************************************************)
(* Claims on the package declaration (basic variant).                      *)
(***************************************************************************)
\* the input defines at least one class
DefinesClass == \E n \in Range(ast_walk(tree)) : n.kind = "ClassDef"

\* C24: basic variant: when the input defines at least one class the returned
\* text begins with the line package pythva.generated; followed by an empty
\* line and then the rendered lines; when it defines no class no package line
\* is emitted.
C24_PackageLine ==
    (IsBasic /\ parsed.ok) =>
        IF DefinesClass
        THEN /\ Len(ret.lines) >= 2
             /\ ret.lines[1] = [ind |-> 0, txt |-> "package pythva.generated;"]
             /\ ret.lines[2] = [ind |-> 0, txt |-> ""]
        ELSE "package pythva.generated;" \notin OutTexts

\* the class of test_basic_class_conversion: the text begins with the class header
C24_FailingInput ==
    /\ IsBasic
    /\ call.code = HelloWorldProgram.code
    /\ ret.lines[1] = [ind |-> 0, txt |-> "public class HelloWorld {"]

(***************************************************************************)
(* Claims on indentation and braces (basic variant).                       *)
(***************************************************************************)
RECURSIVE Skeleton(_, _)
\* the lines the statements stand for, in order, each with its depth and
\* whether it opens a block, closes one, or is a line of a simple statement
\* (a simple statement stands for as many lines as its own rendering has)
Skeleton(nodes, d) ==
    IF nodes = <<>> THEN <<>>
    ELSE LET n == nodes[1]
             block(body) == <<[ind |-> d, role |-> "open"]>> \o Skeleton(body, d + 1)
                              \o <<[ind |-> d, role |-> "close"]>>
             own == CASE n.kind \in {"ClassDef", "FunctionDef", "For", "While"} -> block(n.body)
                      [] n.kind = "If" ->
                           block(n.body) \o (IF n.orelse # <<>> THEN block(n.orelse) ELSE <<>>)
                      [] n.kind = "With" -> Skeleton(n.body, d)
                      [] OTHER ->
                           [i \in 1..Len(visit(JavaStyleConverter_init, n).lines) |->
                              [ind |-> d, role |-> "line"]]
         IN  own \o Skeleton(Tail(nodes), d)

\* the index of the brace that closes the block opened at line i of the skeleton
Closer(sk, i) ==
    CHOOSE j \in (i + 1)..Len(sk) :
        /\ sk[j].ind = sk[i].ind
        /\ \A k \in (i + 1)..(j - 1) : sk[k].ind > sk[i].ind

\* C25: basic variant, every parseable input: indent_level is never negative;
\* every block-opening line (class, function, if, else, for, while) emitted at
\* depth d is followed by exactly one closing brace at depth d with every line
\* between them deeper; on return indent_level is 0 and class_stack is empty.
C25_BlocksBalanced ==
    (IsBasic /\ parsed.ok /\ ret.raised = "none") =>
        LET sk == Skeleton(tree.body, 0)
            n == Len(ret.lines)
        IN  /\ \A i \in 1..n : ret.lines[i].ind >= 0
            /\ n = Len(sk)
            /\ \A i \in 1..n :
                 /\ ret.lines[i].ind = sk[i].ind
                 /\ (ret.lines[i].txt = "}") <=> (sk[i].role = "close")
            /\ \A i \in 1..n :
                 sk[i].role = "open" =>
                     /\ \E j \in (i + 1)..n :
                          /\ ret.lines[j] = [ind |-> ret.lines[i].ind, txt |-> "}"]
                          /\ \A k \in (i + 1)..(j - 1) : ret.lines[k].ind > ret.lines[i].ind
                     /\ sk[Closer(sk, i)].role = "close"
            /\ conv.indent_level = 0
            /\ conv.class_stack = <<>>

\* a class in a class with a constructor after it: blocks three deep, closed in turn
C25_Witness ==
    /\ IsBasic /\ parsed.ok /\ ret.raised = "none"
    /\ [i \in 1..Len(ret.lines) |-> ret.lines[i].ind] = <<0, 1, 2, 3, 3, 2, 2, 2, 1, 1, 1, 0>>
    /\ ret.lines[9].txt = "}"
    /\ conv.indent_level = 0

(***************************************************************************)
(* Claims on the capacity of ConversionCache (under SpecCache).            *)
(***************************************************************************)
\* C26: for a ConversionCache built with any non-negative max_size and no
\* cache file, after every sequence of put, get and clear the number of
\* entries is at most max_size.
C26_AtMostMaxSize == Len(cache.cache) <= cache.max_size

\* a put into a cache built with max_size 0: one entry is held
C26_FailingInput ==
    /\ IsPut
    /\ cache.max_size = 0
    /\ cprev = <<>>
    /\ Len(cache.cache) = 1

\* what holds: a cache of positive max_size never holds more than max_size
\* entries, a cache of max_size 0 never more than one
C26_AtMostMaxSizeOrOne ==
    Len(cache.cache) <= (IF cache.max_size = 0 THEN 1 ELSE cache.max_size)

(***************************************************************************)
(* Claims on OptimizedConverter (under SpecOpt).                           *)
(***************************************************************************)
IsConvert == ocall.fn = "convert"
WithCache == oprev.cache # NoneNode

\* what the call returns on a converter built with the cache disabled
Uncached ==
    OptimizedConverter_convert(OptimizedConverter_init(FALSE, 0), ocall.code,
                               ocall.use_enhanced, ocall.optimize, 1)

\* C27: OptimizedConverter with the cache enabled is observationally equal to
\* the converter with the cache disabled: every convert(code, use_enhanced,
\* optimize) returns the text the selected variant and optimize setting
\* produce for the code without a cache, whatever calls came before.
C27_CacheTransparent ==
    (IsConvert /\ WithCache) =>
        /\ oret.raised = Uncached.raised
        /\ oret.text = Uncached.text

\* convert(code, optimize=False) after convert(code, optimize=True): the text
\* with the doubled parentheses removed comes back from the cache
C27_FailingInput ==
    /\ IsConvert /\ WithCache
    /\ ocall.code = "if x > 0:\n    g(x)\n"
    /\ ~ocall.use_enhanced /\ ~ocall.optimize
    /\ Uncached.text = "if ((x > 0)) {\n    g(x);\n}"
    /\ oret.text = "if (x > 0) {\n    g(x);\n}"

\* C28: after every sequence of convert calls, with the cache enabled or
\* disabled, returning or raising, cache_hits + cache_misses equals
\* total_conversions equals the number of convert calls made, and each call
\* increments exactly one of cache_hits and cache_misses.
C28_CountersMatchCalls ==
    LET m == opt.monitor
    IN  /\ m.cache_hits + m.cache_misses = m.total_conversions
        /\ m.total_conversions = ocalls
        /\ IsConvert =>
             (m.cache_hits - oprev.monitor.cache_hits)
               + (m.cache_misses - oprev.monitor.cache_misses) = 1

\* convert of a text with a lone surrogate, cache enabled: the call raises in
\* cache.get and no counter moves
C28_FailingInput ==
    /\ IsConvert /\ WithCache
    /\ ocall.code = SurrogateText
    /\ oret.raised = "UnicodeEncodeError"
    /\ opt.monitor = oprev.monitor
    /\ ocalls > opt.monitor.total_conversions

\* the entry of the call's code in the cache as it was before the call
Stored ==
    LET entries == oprev.cache.cache
    IN  entries[CHOOSE i \in 1..Len(entries) :
                    entries[i].code_hash = _get_code_hash(ocall.code)]

CachedKeys(self) == {self.cache.cache[i].code_hash : i \in 1..Len(self.cache.cache)}

\* the call's code was converted before and its entry is still in the cache
HasEntry ==
    /\ IsConvert /\ WithCache
    /\ ocall.code # SurrogateText
    /\ InCache(oprev.cache.cache, _get_code_hash(ocall.code))

\* C30: cache enabled: once convert(code) has returned normally and its entry
\* was neither evicted nor cleared, every later convert(code) is recorded as a
\* cache hit, returns the stored text without invoking the underlying
\* converter, and leaves the set of cached keys unchanged; for every code,
\* code whose converted text is empty included.
C30_LaterCallsHit ==
    HasEntry =>
        /\ opt.monitor.cache_hits = oprev.monitor.cache_hits + 1
        /\ opt.monitor.cache_misses = oprev.monitor.cache_misses
        /\ oret.raised = "none"
        /\ oret.text = Stored.converted_code
        /\ ~oret.converted
        /\ CachedKeys(opt) = CachedKeys(oprev)

\* a second convert("x = 10\n", use_enhanced=True): the stored text is empty,
\* the call is recorded as a miss and the converter is invoked again
C30_FailingInput ==
    /\ HasEntry
    /\ ocall.code = "x = 10\n"
    /\ Stored.converted_code = ""
    /\ opt.monitor.cache_misses = oprev.monitor.cache_misses + 1
    /\ oret.converted

\* what holds: the claim for the codes whose stored text is not empty
C30_LaterCallsHitUnlessEmpty ==
    (HasEntry /\ Stored.converted_code # "") => C30_LaterCallsHit

(***************************************************************************)
(* Claims on the registry of PluginManager (under SpecRegistry).           *)
(***************************************************************************)
\* the plugin objects that are values of self.plugins, enabled, in the order
\* of their registration
RegisteredPlugins ==
    LET at == SelectSeq([i \in 1..Len(manager.plugins) |-> i],
                        LAMBDA i : manager.plugins[i] # "")
    IN  SelectSeq([k \in 1..Len(at) |-> manager.conversion_plugins[at[k]]],
                  LAMBDA p : p.enabled)

\* C29: after every sequence of register_plugin and unregister_plugin calls,
\* a second plugin registered under a taken name included, conversion_plugins
\* holds exactly the plugin objects that are values of the plugins dict, each
\* once; a replaced or unregistered plugin takes no part in preprocess_code
\* and postprocess_code any more.
C29_RegistryConsistent ==
    /\ \A i \in 1..Len(manager.conversion_plugins) :
         manager.plugins[i] = manager.conversion_plugins[i].name
    /\ IsProcess => pret.value = Applied(RegisteredPlugins, pcall.arg)

\* two plugins registered under the name a and the name unregistered: the
\* first of them is still in conversion_plugins and marks the text of a pass
C29_FailingInput ==
    /\ IsProcess
    /\ Registered(manager, "a") = 0
    /\ \E i \in 1..Len(manager.conversion_plugins) :
         manager.plugins[i] = "" /\ manager.conversion_plugins[i].name = "a"
    /\ pret.value = "x = 1 #" \o pcall.fn \o ":a"

====
